---------------------------- MODULE Spec2Model ----------------------------
(***************************************************************************)
(* Collaborative grid: the two synchronization servers of the repository   *)
(* and the client's message handlers.                                      *)
(*                                                                         *)
(*   MemSpec  the in-memory server, src/server.js: connections and the     *)
(*            grid handlers (cell-edit, add-row, delete-row)                *)
(*   PresSpec the Lambda-backed server, src/web-socket-server/server.js:   *)
(*            connections and presence (set-name, cursor position), with   *)
(*            the client's presence handlers of src/unnamed/part_001       *)
(*   SyncSpec the same server: select-grid and cell-edit, the calls to the *)
(*            external store they await, and the client's grid handlers    *)
(*   StructSpec the same server: add and delete of rows and columns        *)
(*   CodecSpec  cell references: the client's generateColHeaders and       *)
(*            cellRefToIndex, the server's cellRef and its parser          *)
(*   FormulaSpec the client's evaluateFormula on a small sheet             *)
(*   DispatchSpec the server's ws.on('message') on messages it cannot      *)
(*            parse or handle                                              *)
(*   LockSpec   cell edits of clients that focus the cells they edit       *)
(*   ChangeSpec the server's changedCells loop on change sets              *)
(*   ViewSpec   two stored grids a row longer than the default: select-    *)
(*            grid, delete-row and cell edits of the cells a client shows  *)
(*   CreateSpec the server's create-grid and the two calls it awaits       *)
(*                                                                         *)
(* A send reaches its client at once: a WebSocket delivers in order and    *)
(* the client's handlers are deterministic, so a client's state is the     *)
(* fold of its handlers over what was sent to it.                          *)
(*                                                                         *)
(* Connection ids are 1..MaxConns, handed out in increasing order (uuid()  *)
(* never repeats, and Object.values(clients) iterates in insertion order). *)
(* Date.now() is the variable now, which only grows.                       *)
(***************************************************************************)
EXTENDS Integers, Sequences, FiniteSets, TLC

\* ------------------------------------------------------------------ bounds
MaxConns == 2        \* connections ever opened
MaxTime == 2         \* the server clock runs 1..MaxTime
MaxTs == 2           \* client timestamps are 0..MaxTs, or absent
DefaultRows == 1     \* stands for the 100 of ensureGridSize / add-row (99 + 1)
DefaultCols == 1     \* stands for the 26 of ensureGridSize / add-row (25 + 1)

ConnIds == 1 .. MaxConns
NoConn == 0          \* JavaScript null in lastUpdatedBy
Null == "null"       \* JavaScript null in name
NullPos == <<>>      \* JavaScript null in position
Names == {"", "ann"}
Values == {"a", "b"}
Rows == 0 .. DefaultRows
Cols == 0 .. DefaultCols
Cells == Rows \X Cols
\* the cells the modelled clients edit: one inside the default grid, one in
\* the first row beyond it
EditCells == {<<0, 0>>, <<DefaultRows, 0>>}
Positions == {<<0, 0>>}
Timestamps == 0 .. MaxTs

VARIABLES
  grid,        \* src/server.js grid: cell -> record, NoCell where no key
  memClients,  \* src/server.js clients: connection -> record
  now,         \* Date.now()
  sent,        \* the sends of the last handler run, in order
  last,        \* the event the last handler run was given (history)
  clients,     \* src/web-socket-server/server.js clients
  otherUsers,  \* each client's otherUsers state (src/unnamed/part_001)
  hasSetName,  \* the connections that have sent set-name (history)
  calls,       \* the Lambda calls in flight, in the order they were issued
  store,       \* the external store: grid id -> cell reference -> raw value
  gridData,    \* each client's gridData state (src/unnamed/part_001)
  nCalls,      \* how many Lambda calls were issued (history)
  nEdits,      \* how many cell-edit messages were received (history)
  failed,      \* a Lambda call has failed (history)
  newest,      \* per cell, the received edit with the greatest timestamp (history)
  lastUpdate,  \* per cell, the last cell-update broadcast (history)
  dims,        \* the external store: grid id -> dimensions
  editingCell, \* each client's editingCell state (src/unnamed/part_001)
  arg,         \* the argument a pure function is applied to
  res          \* the results of applying it

vars == <<grid, memClients, now, sent, last, clients, otherUsers, hasSetName,
          calls, store, gridData, nCalls, nEdits, failed, newest, lastUpdate,
          dims, editingCell, arg, res>>
memVars == <<grid, memClients, now>>
presVars == <<clients, otherUsers, hasSetName>>
syncVars == <<calls, store, gridData, nCalls, nEdits, failed, newest, lastUpdate>>
syncHist == <<nCalls, nEdits, failed, newest>>
structVars == <<dims>>
pureVars == <<arg, res>>
editVars == <<editingCell>>
otherVars == <<structVars, pureVars, editVars>>

\* ------------------------------------------------------ src/server.js state
NoCell == [exists |-> FALSE]
Cell(v, t, by) == [exists |-> TRUE, value |-> v, lastUpdated |-> t, lastUpdatedBy |-> by]

Unborn == [status |-> "unborn"]
Gone == [status |-> "gone"]
Client(n, p, st) == [status |-> st, name |-> n, position |-> p]

TruthyAlways(x) == TRUE

\* a JavaScript value is truthy: not null, not the empty string
Truthy(x) == x # Null /\ x # ""

\* keys of grid
Keys(g) == {c \in Cells : g[c].exists}

Max(a, b) == IF a >= b THEN a ELSE b

SetMax(S, floor) == IF S = {} THEN floor
                    ELSE Max(floor, CHOOSE m \in S : \A x \in S : x <= m)

\* the connections of the clients object, in insertion order
InMap(cl) == {c \in ConnIds : cl[c].status \in {"open", "closing"}}

RECURSIVE SeqOfSet(_)
SeqOfSet(S) == IF S = {} THEN <<>>
               ELSE LET m == CHOOSE x \in S : \A y \in S : x <= y
                    IN <<m>> \o SeqOfSet(S \ {m})

RECURSIVE MapSeq(_, _)
MapSeq(s, msg) == IF s = <<>> THEN <<>>
                  ELSE <<[msg |-> msg, to |-> Head(s)]>> \o MapSeq(Tail(s), msg)

\* the loop of broadcast leaves after its first send
broadcastFirstOnly(cl, msg) ==
  LET open == {c \in InMap(cl) : cl[c].status = "open"}
  IN IF open = {} THEN <<>>
     ELSE <<[msg |-> msg, to |-> CHOOSE c \in open : \A d \in open : c <= d]>>

\* broadcast(data): one send to every client whose socket is OPEN
broadcast(cl, msg) ==
  MapSeq(SeqOfSet({c \in InMap(cl) : cl[c].status = "open"}), msg)

\* the users of broadcastUserList: the clients with a truthy name
UserList(cl) == {[name |-> cl[c].name, position |-> cl[c].position, userId |-> c] :
                   c \in {d \in InMap(cl) : Truthy(cl[d].name)}}

broadcastUserList(cl) == broadcast(cl, [type |-> "user-list", users |-> UserList(cl)])

\* ensureGridSize(): every missing cell of the rectangle gets an empty record
ensureGridSizeOverwrites(g, t) ==
  LET maxRow == SetMax({c[1] : c \in Keys(g)}, -1)
      maxCol == SetMax({c[2] : c \in Keys(g)}, -1)
  IN [c \in Cells |->
        IF c[1] < Max(DefaultRows, maxRow + 1) /\ c[2] < Max(DefaultCols, maxCol + 1)
        THEN Cell("", t, NoConn) ELSE g[c]]

ensureGridSize(g, t) ==
  LET maxRow == SetMax({c[1] : c \in Keys(g)}, -1)
      maxCol == SetMax({c[2] : c \in Keys(g)}, -1)
  IN [c \in Cells |->
        IF /\ c[1] < Max(DefaultRows, maxRow + 1)
           /\ c[2] < Max(DefaultCols, maxCol + 1)
           /\ ~g[c].exists
        THEN Cell("", t, NoConn) ELSE g[c]]

\* a cell-edit message: timestamp may be absent (undefined)
Edit(cell, v, hasTs, ts) == [value |-> v, hasTs |-> hasTs, cellId |-> cell, timestamp |-> ts]

JsLE(m, x) == m.hasTs /\ m.timestamp <= x

\* message.timestamp >= x: false for undefined
JsGE(m, x) == m.hasTs /\ m.timestamp >= x

\* message.timestamp || Date.now()
TsOrNow(m, t) == IF m.hasTs /\ m.timestamp # 0 THEN m.timestamp ELSE t

AcceptsStrict(cur, m) == ~cur.exists \/ (m.hasTs /\ m.timestamp > cur.lastUpdated)

AcceptsAlways(cur, m) == TRUE

\* the test of line 112: !currentCell || message.timestamp >= (currentCell.lastUpdated || 0)
Accepts(cur, m) ==
  ~cur.exists \/ JsGE(m, IF cur.lastUpdated # 0 THEN cur.lastUpdated ELSE 0)

\* COLS is declared nowhere in src/server.js: evaluating `c < COLS` raises a
\* ReferenceError, which the try/catch around handleMessage swallows
ColsDeclared == FALSE

MemEvent(type, s, m) == [msg |-> m, type |-> type, sender |-> s, prev |-> NoCell]

\* a cell-edit event also records the record the handler read (currentCell)
EditEvent(s, m, cur) == [msg |-> m, type |-> "cell-edit", sender |-> s, prev |-> cur]
NoMsg == [none |-> TRUE]

\* an entry of the client's otherUsers object; name is Undefined where the
\* entry was made without one
Undefined == "undefined"
NoEntry == [known |-> FALSE]
Entry(n, p) == [name |-> n, position |-> p, known |-> TRUE]

\* ------------------------------------------ cell references and the store
MaxRow == 10          \* rows 0..MaxRow of the references converted
MaxCol == 705         \* columns 0..MaxCol: one, two and three letters
SheetRows == 3        \* the formulas' sheet is A1 .. A<SheetRows>
MaxDepth == 3         \* calls of evaluateFormula the call stack holds
StoreRows == 1        \* rows of the stored grid at the start (stands for 100)
StoreCols == 1        \* columns of the stored grid at the start (stands for 26)
MaxCalls == 3        \* Lambda calls issued in a run
MaxEdits == 2        \* cell-edit messages received in a run

GridIds == {"g1"}
\* ids of the form 'fallback-grid-' + Date.now(), which only init-grid makes up
FallbackIds == {"fallback-grid-0"}
SyncCells == {<<0, 0>>}
SyncValues == {"5", "=1+1"}

\* a cell reference is its column letters (character codes) and its row number
Ref(letters, n) == [letters |-> letters, number |-> n]

\* String.fromCharCode(65 + col) + (row + 1)
cellRef(cell) == Ref(<<65 + cell[2]>>, cell[1] + 1)

Refs == {cellRef(x) : x \in SyncCells}

\* /^([A-Z]+)(\d+)$/ on a reference
RefMatches(r) == Len(r.letters) >= 1 /\ \A i \in 1 .. Len(r.letters) : r.letters[i] \in 65 .. 90

\* col = col * 26 + (charCode - 65 + 1) over the letters
RECURSIVE ColOf(_, _)
ColOf(letters, col) ==
  IF letters = <<>> THEN col
  ELSE ColOf(Tail(letters), col * 26 + (Head(letters) - 65 + 1))

cellIdOfSwapped(r) == <<ColOf(r.letters, 0) - 1, r.number - 1>>

\* the cellId parsed back from a reference: `${row}-${col}`
cellIdOf(r) == <<r.number - 1, ColOf(r.letters, 0) - 1>>

\* the client's cell { rawValue, computedValue }
ViewCell(raw, computed) == [rawValue |-> raw, computedValue |-> computed]
EmptyCell == ViewCell("", "")
NoUpdate == [none |-> TRUE]

\* the computed value the Lambda stores for a raw value
\* the dimensions the store holds for a grid
Dimensions(r, c) == [totalRows |-> r, totalCols |-> c]

\* body.newDimensions, body.dimensions, msg.dimensions: undefined
NoDims == [none |-> TRUE]

\* no pure function is being applied
NoArg == [none |-> TRUE]
NoRes == [none |-> TRUE]

LambdaCompute(raw) == IF raw = "=1+1" THEN "2" ELSE raw

\* --------------------------------------------------------- src/server.js
\* every variable but those of the pure functions
ServerInit ==
  /\ grid = [c \in Cells |-> NoCell]
  /\ memClients = [c \in ConnIds |-> Unborn]
  /\ now = 1
  /\ sent = <<>>
  /\ last = MemEvent("start", NoConn, NoMsg)
  /\ clients = [c \in ConnIds |-> Unborn]
  /\ otherUsers = [c \in ConnIds |-> [u \in ConnIds |-> NoEntry]]
  /\ hasSetName = {}
  /\ calls = <<>>
  /\ store = [g \in GridIds |-> [r \in Refs |-> ""]]
  /\ gridData = [c \in ConnIds |-> [x \in SyncCells |-> EmptyCell]]
  /\ nCalls = 0
  /\ nEdits = 0
  /\ failed = FALSE
  /\ newest = [x \in SyncCells |-> NoUpdate]
  /\ lastUpdate = [x \in SyncCells |-> NoUpdate]
  /\ dims = [g \in GridIds |-> Dimensions(StoreRows, StoreCols)]
  /\ editingCell = [c \in ConnIds |-> NullPos]

MemInit == ServerInit /\ arg = NoArg /\ res = NoRes

\* Date.now() advances
MemTick ==
  /\ now < MaxTime
  /\ now' = now + 1
  /\ sent' = <<>>
  /\ last' = MemEvent("tick", NoConn, NoMsg)
  /\ UNCHANGED <<grid, memClients, presVars, syncVars>>
  /\ UNCHANGED otherVars

\* wss.on('connection')
MemConnect(c) ==
  /\ memClients[c] = Unborn
  /\ \A d \in ConnIds : d < c => memClients[d] # Unborn
  /\ LET cl == [memClients EXCEPT ![c] = Client(Null, NullPos, "open")]
         g == ensureGridSize(grid, now)
     IN /\ memClients' = cl
        /\ grid' = g
        /\ sent' = <<[msg |-> [userId |-> c, type |-> "init"], to |-> c],
                     [msg |-> [grid |-> g, type |-> "full-grid"], to |-> c]>>
                   \o broadcastUserList(cl)
  /\ last' = MemEvent("connection", c, NoMsg)
  /\ UNCHANGED <<now, presVars, syncVars>>
  /\ UNCHANGED otherVars

\* the socket leaves readyState OPEN (closing handshake or error)
MemClosing(c) ==
  /\ memClients[c].status = "open"
  /\ memClients' = [memClients EXCEPT ![c].status = "closing"]
  /\ sent' = <<>>
  /\ last' = MemEvent("closing", c, NoMsg)
  /\ UNCHANGED <<grid, now, presVars, syncVars>>
  /\ UNCHANGED otherVars

\* ws.on('close')
MemClose(c) ==
  /\ memClients[c].status = "closing"
  /\ LET cl == [memClients EXCEPT ![c] = Gone]
     IN /\ memClients' = cl
        /\ sent' = broadcast(cl, [userId |-> c, type |-> "user-leave"])
                   \o broadcastUserList(cl)
  /\ last' = MemEvent("close", c, NoMsg)
  /\ UNCHANGED <<grid, now, presVars, syncVars>>
  /\ UNCHANGED otherVars

\* handleMessage, case 'cell-edit'
MemCellEdit(s, m) ==
  /\ memClients[s].status = "open"
  /\ LET currentCell == grid[m.cellId]
     IN /\ IF Accepts(currentCell, m)
           THEN /\ grid' = [grid EXCEPT ![m.cellId] = Cell(m.value, TsOrNow(m, now), s)]
                /\ sent' = broadcast(memClients,
                             [value |-> m.value, lastUpdatedBy |-> s,
                              type |-> "cell-update", cellId |-> m.cellId,
                              timestamp |-> TsOrNow(m, now)])
           ELSE /\ grid' = grid
                /\ sent' = <<>>
        /\ last' = EditEvent(s, m, currentCell)
  /\ UNCHANGED <<memClients, now, presVars, syncVars>>
  /\ UNCHANGED otherVars

\* handleMessage, case 'add-row'; the row must fit the modelled rectangle
MemAddRow(s) ==
  /\ memClients[s].status = "open"
  /\ LET colCount == SetMax({c[2] : c \in Keys(grid)}, DefaultCols - 1) + 1
         newRowIdx == SetMax({c[1] : c \in Keys(grid)}, DefaultRows - 1) + 1
     IN /\ newRowIdx \in Rows
        /\ colCount - 1 \in Cols
        /\ grid' = [c \in Cells |->
                      IF c[1] = newRowIdx /\ c[2] < colCount
                      THEN Cell("", now, s) ELSE grid[c]]
        /\ sent' = broadcast(memClients,
                     [type |-> "row-added", colCount |-> colCount, rowIndex |-> newRowIdx])
  /\ last' = MemEvent("add-row", s, NoMsg)
  /\ UNCHANGED <<memClients, now, presVars, syncVars>>
  /\ UNCHANGED otherVars

\* handleMessage, case 'delete-row'
MemDeleteRow(s) ==
  /\ memClients[s].status = "open"
  /\ LET rowToDelete == SetMax({c[1] : c \in Keys(grid)}, DefaultRows - 1)
     IN IF ColsDeclared
        THEN /\ grid' = [c \in Cells |->
                           IF c[1] = rowToDelete /\ c[2] < DefaultCols
                           THEN NoCell ELSE grid[c]]
             /\ sent' = broadcast(memClients,
                          [type |-> "row-deleted", rowIndex |-> rowToDelete])
        ELSE /\ grid' = grid
             /\ sent' = <<>>
  /\ last' = MemEvent("delete-row", s, NoMsg)
  /\ UNCHANGED <<memClients, now, presVars, syncVars>>
  /\ UNCHANGED otherVars

MemNext ==
  \/ MemTick
  \/ \E c \in ConnIds : MemConnect(c)
  \/ \E c \in ConnIds : MemClosing(c)
  \/ \E c \in ConnIds : MemClose(c)
  \/ \E s \in ConnIds, cell \in EditCells, v \in Values, ts \in Timestamps :
       MemCellEdit(s, Edit(cell, v, TRUE, ts))
  \/ \E s \in ConnIds, cell \in EditCells, v \in Values :
       MemCellEdit(s, Edit(cell, v, FALSE, 0))
  \/ \E s \in ConnIds : MemAddRow(s)
  \/ \E s \in ConnIds : MemDeleteRow(s)

MemSpec == MemInit /\ [][MemNext]_vars


\* ------------------------------- src/web-socket-server/server.js: presence
NoGrid == "null"     \* selectedGridId: null
LClient(n, p, g, st) == [status |-> st, name |-> n, position |-> p, selectedGridId |-> g]

\* delete clients[connectionId] left out
RemoveNothing(cl, c) == cl

\* delete clients[connectionId]
Remove(cl, c) == [cl EXCEPT ![c] = Gone]

\* updateUserPresence(users): otherUsers becomes exactly the listed users
updateUserPresence(users) ==
  [u \in ConnIds |->
     IF \E e \in users : e.userId = u
     THEN LET e == CHOOSE x \in users : x.userId = u IN Entry(e.name, e.position)
     ELSE NoEntry]

\* socket.onmessage, case 'user-position-update': merge into otherUsers
PositionUpdate(ou, u, p) ==
  [ou EXCEPT ![u] = IF ou[u].known THEN Entry(ou[u].name, p) ELSE Entry(Undefined, p)]

\* socket.onmessage on the presence state; 'user-leave' and every other type
\* leave otherUsers alone ('user-leave' has no case: the default branch)
OnPresenceMessage(ou, m) ==
  CASE m.type = "user-list" -> updateUserPresence(m.users)
    [] m.type = "user-position-update" -> PositionUpdate(ou, m.userId, m.position)
    [] OTHER -> ou

RECURSIVE DeliverPresence(_, _, _)
DeliverPresence(ou, c, s) ==
  IF s = <<>> THEN ou
  ELSE DeliverPresence(IF Head(s).to = c THEN OnPresenceMessage(ou, Head(s).msg) ELSE ou,
                       c, Tail(s))

\* every client handles what the handler run sent to it
PresenceAfter(s) == [c \in ConnIds |-> DeliverPresence(otherUsers[c], c, s)]

PresInit == MemInit

\* wss.on('connection')
Connect(c) ==
  /\ clients[c] = Unborn
  /\ \A d \in ConnIds : d < c => clients[d] # Unborn
  /\ LET cl == [clients EXCEPT ![c] = LClient(Null, NullPos, NoGrid, "open")]
         out == <<[msg |-> [userId |-> c, type |-> "init"], to |-> c]>>
                \o broadcastUserList(cl)
     IN /\ clients' = cl
        /\ sent' = out
        /\ otherUsers' = PresenceAfter(out)
  /\ last' = MemEvent("connection", c, NoMsg)
  /\ UNCHANGED <<memVars, hasSetName, syncVars>>
  /\ UNCHANGED otherVars

\* the socket leaves readyState OPEN (closing handshake or error)
Closing(c) ==
  /\ clients[c].status = "open"
  /\ clients' = [clients EXCEPT ![c].status = "closing"]
  /\ sent' = <<>>
  /\ last' = MemEvent("closing", c, NoMsg)
  /\ UNCHANGED <<memVars, otherUsers, hasSetName, syncVars>>
  /\ UNCHANGED otherVars

\* ws.on('close')
Close(c) ==
  /\ clients[c].status = "closing"
  /\ LET cl == Remove(clients, c)
         out == broadcast(cl, [userId |-> c, type |-> "user-leave"])
                \o broadcastUserList(cl)
     IN /\ clients' = cl
        /\ sent' = out
        /\ otherUsers' = PresenceAfter(out)
  /\ last' = MemEvent("close", c, NoMsg)
  /\ UNCHANGED <<memVars, hasSetName, syncVars>>
  /\ UNCHANGED otherVars

\* handleMessage, case 'set-name'
SetName(s, n) ==
  /\ clients[s].status = "open"
  /\ LET cl == [clients EXCEPT ![s].name = n]
         out == broadcastUserList(cl)
     IN /\ clients' = cl
        /\ sent' = out
        /\ otherUsers' = PresenceAfter(out)
  /\ hasSetName' = hasSetName \cup {s}
  /\ last' = MemEvent("set-name", s, [name |-> n])
  /\ UNCHANGED <<memVars, syncVars>>
  /\ UNCHANGED otherVars

\* handleMessage, case 'user-cell-position-change'
Position(s, p) ==
  /\ clients[s].status = "open"
  /\ LET out == broadcast(clients,
                  [position |-> p, userId |-> s, type |-> "user-position-update"])
     IN /\ clients' = [clients EXCEPT ![s].position = p]
        /\ sent' = out
        /\ otherUsers' = PresenceAfter(out)
  /\ last' = MemEvent("user-cell-position-change", s, [position |-> p])
  /\ UNCHANGED <<memVars, hasSetName, syncVars>>
  /\ UNCHANGED otherVars

PresNext ==
  \/ \E c \in ConnIds : Connect(c)
  \/ \E c \in ConnIds : Closing(c)
  \/ \E c \in ConnIds : Close(c)
  \/ \E s \in ConnIds, n \in Names : SetName(s, n)
  \/ \E s \in ConnIds, p \in Positions : Position(s, p)

PresSpec == PresInit /\ [][PresNext]_vars


\* ------------------------ src/web-socket-server/server.js: grids and cells
IsFallback(g) == g \in FallbackIds     \* selectedGridId.startsWith('fallback-grid-')

NoRef == Ref(<<>>, 0)
NoResp == [none |-> TRUE]
NewCall(op, s, g, r, v) ==
  [sender |-> s, rawValue |-> v, op |-> op, gridId |-> g, ref |-> r,
   stage |-> "sent", resp |-> NoResp]

\* calls without its i-th element
RemoveAt(q, i) == [j \in 1 .. Len(q) - 1 |-> IF j < i THEN q[j] ELSE q[j + 1]]

\* the edit with the greatest timestamp among those received for a cell, and
\* whether another edit with another value bears the same timestamp
Newer(n, value, ts) ==
  IF n = NoUpdate \/ n.timestamp < ts THEN [value |-> value, timestamp |-> ts, tied |-> FALSE]
  ELSE IF n.timestamp = ts /\ n.value # value THEN [n EXCEPT !.tied = TRUE]
  ELSE n

\* a handler run on a cell-edit also records the grid the sender had selected
SyncEvent(s, m, g) == [msg |-> m, type |-> "cell-edit", sender |-> s, prev |-> NoCell, gridId |-> g]

CellUpdateUncomputed(x, raw, computed, by) ==
  [lastUpdatedBy |-> by, type |-> "cell-update", cellId |-> x,
   rawValue |-> raw, computedValue |-> ""]

CellUpdate(x, raw, computed, by) ==
  [lastUpdatedBy |-> by, type |-> "cell-update", cellId |-> x,
   rawValue |-> raw, computedValue |-> computed]

SendToAll(cl, c, m) == broadcast(cl, m)

\* ws.send on the socket of connection c: delivered if that socket is OPEN
SendTo(cl, c, m) == IF cl[c].status = "open" THEN <<[msg |-> m, to |-> c]>> ELSE <<>>

\* the editingCell that socket.onmessage sees: the effect that installs the
\* handler runs once (dependency list []), so handleRemoteCellUpdate is the
\* closure of the first render, where editingCell is its initial null
StaleEditingCell == NullPos

\* handleRemoteCellUpdate(msg)
handleRemoteCellUpdate(view, m) ==
  IF StaleEditingCell = m.cellId THEN view
  ELSE [x \in DOMAIN view \cup {m.cellId} |->
          IF x = m.cellId THEN ViewCell(m.rawValue, m.computedValue) ELSE view[x]]

\* the cells of a grid of the given dimensions
CellsOf(d) == (0 .. d.totalRows - 1) \X (0 .. d.totalCols - 1)

\* socket.onmessage, case 'full-grid': a new grid of msg.dimensions, or of
\* DEFAULT_ROWS x DEFAULT_COLS, filled from the cells of msg.grid inside it
OnFullGrid(view, m) ==
  LET dimensions == IF m.dimensions = NoDims THEN Dimensions(StoreRows, StoreCols)
                    ELSE m.dimensions
  IN [x \in CellsOf(dimensions) |-> IF x \in DOMAIN m.grid THEN m.grid[x] ELSE EmptyCell]

\* handleGridDimensionsChanged(msg): rows and columns are added empty or
\* spliced off until the grid has msg.newDimensions; without newDimensions
\* the updater throws on newDimensions.totalRows and the grid stays
handleGridDimensionsChanged(view, m) ==
  IF m.newDimensions = NoDims THEN view
  ELSE [x \in CellsOf(m.newDimensions) |-> IF x \in DOMAIN view THEN view[x] ELSE EmptyCell]

OnGridMessage(view, m) ==
  CASE m.type = "cell-update" -> handleRemoteCellUpdate(view, m)
    [] m.type = "full-grid" -> OnFullGrid(view, m)
    [] m.type = "grid-dimensions-changed" -> handleGridDimensionsChanged(view, m)
    [] OTHER -> view

RECURSIVE DeliverGrid(_, _, _)
DeliverGrid(view, c, s) ==
  IF s = <<>> THEN view
  ELSE DeliverGrid(IF Head(s).to = c THEN OnGridMessage(view, Head(s).msg) ELSE view,
                   c, Tail(s))

GridDataAfter(gd, s) == [c \in ConnIds |-> DeliverGrid(gd[c], c, s)]

\* the Lambda's update_cell: the changed cells, each with raw and computed value
UpdateCellResponse(r, v) ==
  <<[rawValue |-> v, computedValue |-> LambdaCompute(v), cellCoordinate |-> r]>>

\* the Lambda's get_grid_data: the populated cells of the grid, by reference
GetGridDataResponse(g) ==
  IF g \in DOMAIN store
  THEN [r \in {q \in DOMAIN store[g] : store[g][q] # ""} |->
          ViewCell(store[g][r], LambdaCompute(store[g][r]))]
  ELSE [r \in {} |-> EmptyCell]

\* body.dimensions of the Lambda's get_grid_data
GetGridDataDimensions(g) == IF g \in DOMAIN dims THEN dims[g] ELSE NoDims

\* convertGridDataToRowCol(gridData)
convertGridDataToRowCol(gd) ==
  [x \in {cellIdOf(r) : r \in {q \in DOMAIN gd : RefMatches(q)}} |->
     gd[CHOOSE r \in DOMAIN gd : RefMatches(r) /\ cellIdOf(r) = x]]

\* the broadcasts of the changedCells loop, and the last update they leave
RECURSIVE ChangedCellsSends(_, _, _)
ChangedCellsSends(cl, changed, by) ==
  IF changed = <<>> THEN <<>>
  ELSE LET cell == Head(changed)
       IN (IF RefMatches(cell.cellCoordinate)
           THEN broadcast(cl, CellUpdate(cellIdOf(cell.cellCoordinate),
                                         cell.rawValue, cell.computedValue, by))
           ELSE <<>>)
          \o ChangedCellsSends(cl, Tail(changed), by)

RECURSIVE ChangedCellsLast(_, _)
ChangedCellsLast(lu, changed) ==
  IF changed = <<>> THEN lu
  ELSE LET cell == Head(changed)
           x == cellIdOf(cell.cellCoordinate)
       IN ChangedCellsLast(
            IF RefMatches(cell.cellCoordinate) /\ x \in DOMAIN lu
            THEN [lu EXCEPT ![x] = ViewCell(cell.rawValue, cell.computedValue)]
            ELSE lu,
            Tail(changed))

SyncInit == MemInit

\* handleMessage, case 'select-grid', up to the await
SelectGrid(s, g) ==
  /\ clients[s].status = "open"
  /\ nCalls < MaxCalls
  /\ clients' = [clients EXCEPT ![s].selectedGridId = g]
  /\ calls' = Append(calls, NewCall("get_grid_data", s, g, NoRef, ""))
  /\ nCalls' = nCalls + 1
  /\ sent' = <<>>
  /\ last' = MemEvent("select-grid", s, [gridId |-> g])
  /\ UNCHANGED <<memVars, otherUsers, hasSetName, store, gridData, nEdits, failed,
                 newest, lastUpdate>>
  /\ UNCHANGED otherVars

\* handleCellEdit(row, col, value) at client s, its debounce timer firing, and
\* handleMessage, case 'cell-edit', on the message the timer sends.  A client
\* shows its grid only once it has selected one, so an edit from a connection
\* without a grid is a bare message, with no client write before it.
CellEdit(s, x, value, ts) ==
  /\ clients[s].status = "open"
  /\ nEdits < MaxEdits
  /\ LET selectedGridId == clients[s].selectedGridId
         m == Edit(x, value, TRUE, ts)
         out == broadcast(clients, CellUpdate(x, value, value, s))
         typed == [gridData EXCEPT ![s][x].rawValue = value]
     IN /\ nEdits' = nEdits + 1
        /\ last' = SyncEvent(s, m, selectedGridId)
        /\ IF selectedGridId = NoGrid
           THEN /\ sent' = <<>>
                /\ UNCHANGED <<calls, nCalls, gridData, newest, lastUpdate>>
           ELSE /\ sent' = out
                /\ gridData' = GridDataAfter(typed, out)
                /\ lastUpdate' = [lastUpdate EXCEPT ![x] = ViewCell(value, value)]
                /\ newest' = [newest EXCEPT ![x] = Newer(newest[x], value, ts)]
                /\ IF IsFallback(selectedGridId)
                   THEN UNCHANGED <<calls, nCalls>>
                   ELSE /\ nCalls < MaxCalls
                        /\ nCalls' = nCalls + 1
                        /\ calls' = Append(calls,
                             NewCall("update_cell", s, selectedGridId, cellRef(x), value))
  /\ UNCHANGED <<memVars, presVars, store, failed>>
  /\ UNCHANGED otherVars

\* the Lambda serves call i
LambdaExec(i) ==
  /\ i \in 1 .. Len(calls)
  /\ calls[i].stage = "sent"
  /\ calls[i].op \in {"update_cell", "get_grid_data"}
  /\ IF calls[i].op = "update_cell"
     THEN /\ store' = [store EXCEPT ![calls[i].gridId][calls[i].ref] = calls[i].rawValue]
          /\ calls' = [calls EXCEPT ![i].stage = "replied",
                                    ![i].resp = UpdateCellResponse(calls[i].ref, calls[i].rawValue)]
     ELSE /\ store' = store
          /\ calls' = [calls EXCEPT ![i].stage = "replied",
                                    ![i].resp =
                                       [gridData |-> GetGridDataResponse(calls[i].gridId),
                                        dimensions |-> GetGridDataDimensions(calls[i].gridId)]]
  /\ sent' = <<>>
  /\ last' = MemEvent("lambda", NoConn, NoMsg)
  /\ UNCHANGED <<memVars, presVars, gridData, syncHist, lastUpdate>>
  /\ UNCHANGED otherVars

\* the code after `await lam_update_cell(...)`: the changedCells loop
ResumeCellEdit(i) ==
  /\ i \in 1 .. Len(calls)
  /\ calls[i].stage = "replied"
  /\ calls[i].op = "update_cell"
  /\ LET out == ChangedCellsSends(clients, calls[i].resp, calls[i].sender)
     IN /\ sent' = out
        /\ gridData' = GridDataAfter(gridData, out)
        /\ lastUpdate' = ChangedCellsLast(lastUpdate, calls[i].resp)
  /\ calls' = RemoveAt(calls, i)
  /\ last' = MemEvent("resume-cell-edit", calls[i].sender, NoMsg)
  /\ UNCHANGED <<memVars, presVars, store, syncHist>>
  /\ UNCHANGED otherVars

\* axios.post of lam_update_cell rejects (the request or its response is
\* lost, or times out) and the catch runs: console.error only
FailCellEdit(i) ==
  /\ i \in 1 .. Len(calls)
  /\ calls[i].op = "update_cell"
  /\ calls' = RemoveAt(calls, i)
  /\ failed' = TRUE
  /\ sent' = <<>>
  /\ last' = MemEvent("fail-cell-edit", calls[i].sender, NoMsg)
  /\ UNCHANGED <<memVars, presVars, store, gridData, nCalls, nEdits, newest, lastUpdate>>
  /\ UNCHANGED otherVars

\* the code after `await lam_get_grid_data(...)` of select-grid
ResumeSelectGrid(i) ==
  /\ i \in 1 .. Len(calls)
  /\ calls[i].stage = "replied"
  /\ calls[i].op = "get_grid_data"
  /\ LET body == calls[i].resp
         dimensions == IF body.dimensions = NoDims THEN Dimensions(StoreRows, StoreCols)
                       ELSE body.dimensions
         out == SendTo(clients, calls[i].sender,
                  [grid |-> convertGridDataToRowCol(body.gridData),
                   type |-> "full-grid", gridId |-> calls[i].gridId,
                   dimensions |-> dimensions, error |-> FALSE])
     IN /\ sent' = out
        /\ gridData' = GridDataAfter(gridData, out)
  /\ calls' = RemoveAt(calls, i)
  /\ last' = MemEvent("resume-select-grid", calls[i].sender, NoMsg)
  /\ UNCHANGED <<memVars, presVars, store, syncHist, lastUpdate>>
  /\ UNCHANGED otherVars

\* axios.post of lam_get_grid_data rejects and the catch of select-grid runs
FailSelectGrid(i) ==
  /\ i \in 1 .. Len(calls)
  /\ calls[i].op = "get_grid_data"
  /\ LET out == SendTo(clients, calls[i].sender,
                  [grid |-> [x \in {} |-> EmptyCell],
                   type |-> "full-grid", gridId |-> calls[i].gridId,
                   dimensions |-> NoDims, error |-> TRUE])
     IN /\ sent' = out
        /\ gridData' = GridDataAfter(gridData, out)
  /\ calls' = RemoveAt(calls, i)
  /\ failed' = TRUE
  /\ last' = MemEvent("fail-select-grid", calls[i].sender, NoMsg)
  /\ UNCHANGED <<memVars, presVars, store, nCalls, nEdits, newest, lastUpdate>>
  /\ UNCHANGED otherVars

SyncNext ==
  \/ \E c \in ConnIds : Connect(c)
  \/ \E c \in ConnIds : Closing(c)
  \/ \E c \in ConnIds : Close(c)
  \/ \E s \in ConnIds, g \in GridIds : SelectGrid(s, g)
  \/ \E s \in ConnIds, x \in SyncCells, v \in SyncValues, ts \in 1 .. MaxTs :
       CellEdit(s, x, v, ts)
  \/ \E i \in 1 .. MaxCalls : LambdaExec(i)
  \/ \E i \in 1 .. MaxCalls : ResumeCellEdit(i)
  \/ \E i \in 1 .. MaxCalls : FailCellEdit(i)
  \/ \E i \in 1 .. MaxCalls : ResumeSelectGrid(i)
  \/ \E i \in 1 .. MaxCalls : FailSelectGrid(i)

SyncSpec == SyncInit /\ [][SyncNext]_vars


\* ------------ src/web-socket-server/server.js: messages that cannot be handled
\* what reaches the catch of ws.on('message'): a frame that is not JSON
\* (JSON.parse throws), the JSON text null (message.type throws), and a
\* cell-edit without a cellId (cellId.split throws once a grid is selected)
BadKinds == {"not-json", "null", "cell-edit-no-cellId"}

OnMessageErrorCloses(cl, s) == [cl EXCEPT ![s].status = "closing"]

\* the catch of ws.on('message'): console.error and nothing else
OnMessageError(cl, s) == cl

\* ws.on('message') given a message of one of the BadKinds.  A cell-edit
\* without a cellId from a connection with no grid returns at the
\* selectedGridId test before it reaches cellId.split.
BadMessage(s, kind) ==
  /\ clients[s].status = "open"
  /\ clients' = IF kind = "cell-edit-no-cellId" /\ ~Truthy(clients[s].selectedGridId)
                THEN clients
                ELSE OnMessageError(clients, s)
  /\ sent' = <<>>
  /\ last' = MemEvent("bad-message", s, [kind |-> kind])
  /\ UNCHANGED <<memVars, otherUsers, hasSetName, syncVars>>
  /\ UNCHANGED otherVars

DispatchNext ==
  \/ \E c \in ConnIds : Connect(c)
  \/ \E s \in ConnIds, n \in Names : SetName(s, n)
  \/ \E s \in ConnIds, g \in GridIds : SelectGrid(s, g)
  \/ \E i \in 1 .. MaxCalls : LambdaExec(i)
  \/ \E i \in 1 .. MaxCalls : ResumeSelectGrid(i)
  \/ \E s \in ConnIds, kind \in BadKinds : BadMessage(s, kind)

DispatchSpec == MemInit /\ [][DispatchNext]_vars


\* ------------------------- src/unnamed/part_001: the cell a client is editing
\* onFocus of the input of cell x: setEditingCell({ row, col })
Focus(c, x) ==
  /\ clients[c].status = "open"
  /\ Truthy(clients[c].selectedGridId)
  /\ editingCell[c] # x
  /\ editingCell' = [editingCell EXCEPT ![c] = x]
  /\ sent' = <<>>
  /\ last' = MemEvent("focus", c, NoMsg)
  /\ UNCHANGED <<memVars, presVars, syncVars, structVars, pureVars>>

\* onBlur of that input: setEditingCell(null)
Blur(c) ==
  /\ clients[c].status = "open"
  /\ editingCell[c] # NullPos
  /\ editingCell' = [editingCell EXCEPT ![c] = NullPos]
  /\ sent' = <<>>
  /\ last' = MemEvent("blur", c, NoMsg)
  /\ UNCHANGED <<memVars, presVars, syncVars, structVars, pureVars>>

\* onChange fires in the focused input only: a client edits the cell it is
\* editing
LockNext ==
  \/ \E c \in ConnIds : Connect(c)
  \/ \E s \in ConnIds, g \in GridIds : SelectGrid(s, g)
  \/ \E i \in 1 .. MaxCalls : LambdaExec(i)
  \/ \E i \in 1 .. MaxCalls : ResumeSelectGrid(i)
  \/ \E c \in ConnIds, x \in SyncCells : Focus(c, x)
  \/ \E c \in ConnIds : Blur(c)
  \/ \E s \in ConnIds, x \in SyncCells, v \in SyncValues, ts \in 1 .. MaxTs :
       editingCell[s] = x /\ CellEdit(s, x, v, ts)
  \/ \E i \in 1 .. MaxCalls : ResumeCellEdit(i)

LockSpec == MemInit /\ [][LockNext]_vars


\* ------- src/web-socket-server/server.js: the changedCells loop on change sets
\* the cells a change set lists: the edited cell and cells that depend on it,
\* by reference (A1, B1, AA2), with the raw and computed value of each
ChangedCells ==
  [rawValue : {"5", "=A1+10"}, computedValue : {"5", "15"},
   cellCoordinate : {Ref(<<65>>, 1), Ref(<<66>>, 1), Ref(<<65, 65>>, 2)}]

\* body.changedCells of an update_cell response: one cell, or two
ChangeSets == {<<a>> : a \in ChangedCells} \cup {<<a, b>> : a, b \in ChangedCells}

\* the connections when the response arrives: open, closing or closed
ChangeInputs ==
  [changed : ChangeSets,
   cl : [ConnIds -> {LClient(Null, NullPos, "g1", "open"),
                     LClient(Null, NullPos, "g1", "closing"), Gone}],
   by : ConnIds]

ChangeInit == ServerInit /\ arg \in ChangeInputs /\ res = NoRes

\* body.changedCells.forEach(cell => ... broadcast(...))
BroadcastChanges ==
  /\ res = NoRes
  /\ res' = [sends |-> ChangedCellsSends(arg.cl, arg.changed, arg.by)]
  /\ UNCHANGED <<memVars, sent, last, presVars, syncVars, structVars, editVars, arg>>

ChangeNext == BroadcastChanges

ChangeSpec == ChangeInit /\ [][ChangeNext]_vars


\* ------------- src/web-socket-server/server.js: add/delete of rows and columns
StructuralTypes == {"add-row", "delete-row", "add-col", "delete-col"}

\* the operation name the handler's switch gives each message type
operation(type) ==
  CASE type = "add-row" -> "add_row"
    [] type = "delete-row" -> "delete_row"
    [] type = "add-col" -> "add_column"
    [] type = "delete-col" -> "delete_column"

StructuralOps == {operation(t) : t \in StructuralTypes}

DimensionError(e) == [type |-> "grid-dimension-error", error |-> e]
DimensionsChanged(g, d, op) ==
  [type |-> "grid-dimensions-changed", gridId |-> g, newDimensions |-> d, operation |-> op]

\* a handler run on a structural message records the sender's selected grid
StructEvent(s, type, g) ==
  [msg |-> [type |-> type], type |-> "structural", sender |-> s, prev |-> NoCell, gridId |-> g]

\* the store's structural operations: a dimension never goes below 1
Underflow(d, op) ==
  \/ op = "delete_row" /\ d.totalRows <= 1
  \/ op = "delete_column" /\ d.totalCols <= 1

Resized(d, op) ==
  CASE op = "add_row" -> Dimensions(d.totalRows + 1, d.totalCols)
    [] op = "delete_row" -> Dimensions(d.totalRows - 1, d.totalCols)
    [] op = "add_column" -> Dimensions(d.totalRows, d.totalCols + 1)
    [] op = "delete_column" -> Dimensions(d.totalRows, d.totalCols - 1)

StructuralResponse(d, op) ==
  IF Underflow(d, op) THEN [error |-> "DimensionUnderflow"]
  ELSE [newDimensions |-> Resized(d, op)]

HasErrorNever(body) == FALSE

\* if (body.error)
HasError(body) == "error" \in DOMAIN body /\ Truthy(body.error)

\* body.newDimensions
NewDimensions(body) == IF "newDimensions" \in DOMAIN body THEN body.newDimensions ELSE NoDims

StructInit == MemInit

\* handleMessage, cases 'add-row', 'delete-row', 'add-col', 'delete-col', up
\* to the await
Structural(s, type) ==
  /\ clients[s].status = "open"
  /\ LET selectedGridId == clients[s].selectedGridId
     IN /\ last' = StructEvent(s, type, selectedGridId)
        /\ IF ~Truthy(selectedGridId)
           THEN /\ sent' = SendTo(clients, s, DimensionError("No grid selected"))
                /\ UNCHANGED <<calls, nCalls>>
           ELSE IF IsFallback(selectedGridId)
           THEN /\ sent' = SendTo(clients, s, DimensionError("Cannot modify fallback grid"))
                /\ UNCHANGED <<calls, nCalls>>
           ELSE /\ nCalls < MaxCalls
                /\ nCalls' = nCalls + 1
                /\ calls' = Append(calls, NewCall(operation(type), s, selectedGridId, NoRef, ""))
                /\ sent' = <<>>
  /\ UNCHANGED <<memVars, presVars, store, gridData, nEdits, failed, newest, lastUpdate,
                 structVars, pureVars, editVars>>

\* the store serves structural call i
LambdaStructural(i) ==
  /\ i \in 1 .. Len(calls)
  /\ calls[i].stage = "sent"
  /\ calls[i].op \in StructuralOps
  /\ LET d == dims[calls[i].gridId]
     IN /\ dims' = [dims EXCEPT ![calls[i].gridId] =
                      IF Underflow(d, calls[i].op) THEN d ELSE Resized(d, calls[i].op)]
        /\ calls' = [calls EXCEPT ![i].stage = "replied",
                                  ![i].resp = StructuralResponse(d, calls[i].op)]
  /\ sent' = <<>>
  /\ last' = MemEvent("lambda", NoConn, NoMsg)
  /\ UNCHANGED <<memVars, presVars, store, gridData, syncHist, lastUpdate, pureVars,
                 editVars>>

\* the code after `await lam_add_row(...)` and its like: error to the sender,
\* or the new dimensions to all
ResumeStructural(i) ==
  /\ i \in 1 .. Len(calls)
  /\ calls[i].stage = "replied"
  /\ calls[i].op \in StructuralOps
  /\ LET body == calls[i].resp
         out == IF HasError(body)
                THEN SendTo(clients, calls[i].sender, DimensionError(body.error))
                ELSE broadcast(clients, DimensionsChanged(calls[i].gridId,
                                                          NewDimensions(body), calls[i].op))
     IN /\ sent' = out
        /\ gridData' = GridDataAfter(gridData, out)
  /\ calls' = RemoveAt(calls, i)
  /\ last' = MemEvent("resume-structural", calls[i].sender, calls[i].resp)
  /\ UNCHANGED <<memVars, presVars, store, syncHist, lastUpdate,
                 structVars, pureVars, editVars>>

\* axios.post of a structural call rejects and the catch runs
FailStructural(i) ==
  /\ i \in 1 .. Len(calls)
  /\ calls[i].op \in StructuralOps
  /\ sent' = SendTo(clients, calls[i].sender, DimensionError("Failed"))
  /\ calls' = RemoveAt(calls, i)
  /\ failed' = TRUE
  /\ last' = MemEvent("fail-structural", calls[i].sender, NoMsg)
  /\ UNCHANGED <<memVars, presVars, store, gridData, nCalls, nEdits, newest, lastUpdate,
                 structVars, pureVars, editVars>>

StructNext ==
  \/ \E c \in ConnIds : Connect(c)
  \/ \E c \in ConnIds : Closing(c)
  \/ \E c \in ConnIds : Close(c)
  \/ \E s \in ConnIds, g \in GridIds \cup FallbackIds : SelectGrid(s, g)
  \/ \E i \in 1 .. MaxCalls : LambdaExec(i)
  \/ \E i \in 1 .. MaxCalls : ResumeSelectGrid(i)
  \/ \E s \in ConnIds, t \in StructuralTypes : Structural(s, t)
  \/ \E i \in 1 .. MaxCalls : LambdaStructural(i)
  \/ \E i \in 1 .. MaxCalls : ResumeStructural(i)
  \/ \E i \in 1 .. MaxCalls : FailStructural(i)

StructSpec == StructInit /\ [][StructNext]_vars


\* ------------ src/web-socket-server/server.js and src/unnamed/part_001: two
\* grids, each a row longer than the default, and clients that edit the cells
\* they display
ViewRows == 2         \* rows of the stored grids of ViewSpec at the start
ViewGrids == {"g1", "g2"}
ViewCells == CellsOf(Dimensions(ViewRows, StoreCols))

ViewInit ==
  /\ grid = [c \in Cells |-> NoCell]
  /\ memClients = [c \in ConnIds |-> Unborn]
  /\ now = 1
  /\ sent = <<>>
  /\ last = MemEvent("start", NoConn, NoMsg)
  /\ clients = [c \in ConnIds |-> Unborn]
  /\ otherUsers = [c \in ConnIds |-> [u \in ConnIds |-> NoEntry]]
  /\ hasSetName = {}
  /\ calls = <<>>
  /\ store = [g \in ViewGrids |-> [r \in {cellRef(x) : x \in ViewCells} |-> ""]]
  /\ gridData = [c \in ConnIds |-> [x \in CellsOf(Dimensions(StoreRows, StoreCols)) |-> EmptyCell]]
  /\ nCalls = 0
  /\ nEdits = 0
  /\ failed = FALSE
  /\ newest = [x \in ViewCells |-> NoUpdate]
  /\ lastUpdate = [x \in ViewCells |-> NoUpdate]
  /\ dims = [g \in ViewGrids |-> Dimensions(ViewRows, StoreCols)]
  /\ editingCell = [c \in ConnIds |-> NullPos]
  /\ arg = NoArg
  /\ res = NoRes

\* a client edits a cell of the grid it displays
ViewNext ==
  \/ \E c \in ConnIds : Connect(c)
  \/ \E s \in ConnIds, g \in ViewGrids : SelectGrid(s, g)
  \/ \E i \in 1 .. MaxCalls : LambdaExec(i)
  \/ \E i \in 1 .. MaxCalls : ResumeSelectGrid(i)
  \/ \E s \in ConnIds, x \in ViewCells, v \in SyncValues, ts \in 1 .. MaxTs :
       x \in DOMAIN gridData[s] /\ CellEdit(s, x, v, ts)
  \/ \E i \in 1 .. MaxCalls : ResumeCellEdit(i)
  \/ \E s \in ConnIds : Structural(s, "delete-row")
  \/ \E i \in 1 .. MaxCalls : LambdaStructural(i)
  \/ \E i \in 1 .. MaxCalls : ResumeStructural(i)

ViewSpec == ViewInit /\ [][ViewNext]_vars


\* --------------------- src/web-socket-server/server.js: create-grid requests
GridNames == {"Budget"}

\* the ids the store gives the grids it creates
NewGridIds == {"g2", "g3", "g4", "g5"}

\* a handler run of a create-grid request records the id the store gave the
\* grid (NoGrid: none yet) and how many grid-created messages the request had
\* sent before the run
CreateEvent(type, s, g, n) == MemEvent(type, s, [gridId |-> g, notified |-> n])

\* handleMessage, case 'create-grid', up to `await lam_create_grid(...)`
CreateGrid(s, name) ==
  /\ clients[s].status = "open"
  /\ nCalls < MaxCalls
  /\ nCalls' = nCalls + 1
  /\ calls' = Append(calls, NewCall("create_grid", s, NoGrid, NoRef, name))
  /\ sent' = <<>>
  /\ last' = CreateEvent("create-grid", s, NoGrid, 0)
  /\ UNCHANGED <<memVars, presVars, store, gridData, nEdits, failed, newest, lastUpdate>>
  /\ UNCHANGED otherVars

\* the store serves create_grid: a new grid of the default dimensions
LambdaCreateGrid(i) ==
  /\ i \in 1 .. Len(calls)
  /\ calls[i].stage = "sent"
  /\ calls[i].op = "create_grid"
  /\ NewGridIds \ DOMAIN store # {}
  /\ LET id == CHOOSE g \in NewGridIds : g \notin DOMAIN store
     IN /\ store' = [g \in DOMAIN store \cup {id} |->
                       IF g = id THEN [r \in Refs |-> ""] ELSE store[g]]
        /\ dims' = [g \in DOMAIN dims \cup {id} |->
                      IF g = id THEN Dimensions(StoreRows, StoreCols) ELSE dims[g]]
        /\ calls' = [calls EXCEPT ![i].stage = "replied", ![i].gridId = id,
                                  ![i].resp = [name |-> calls[i].rawValue, gridId |-> id,
                                               dimensions |-> dims'[id]]]
  /\ sent' = <<>>
  /\ last' = MemEvent("lambda", NoConn, NoMsg)
  /\ UNCHANGED <<memVars, presVars, gridData, syncHist, lastUpdate, pureVars, editVars>>

\* the code after `await lam_create_grid(...)`: grid-created with the new
\* grid to the sender, up to `await lam_list_grids()`
ResumeCreateGrid(i) ==
  /\ i \in 1 .. Len(calls)
  /\ calls[i].stage = "replied"
  /\ calls[i].op = "create_grid"
  /\ LET body == calls[i].resp
         newGrid == [name |-> body.name, dimensions |-> body.dimensions, id |-> body.gridId]
     IN sent' = SendTo(clients, calls[i].sender,
                       [grid |-> newGrid, type |-> "grid-created", error |-> Null])
  /\ calls' = [calls EXCEPT ![i].op = "list_grids", ![i].stage = "sent", ![i].resp = NoResp]
  /\ nCalls' = nCalls + 1
  /\ last' = CreateEvent("resume-create-grid", calls[i].sender, calls[i].gridId, 0)
  /\ UNCHANGED <<memVars, presVars, store, gridData, nEdits, failed, newest, lastUpdate>>
  /\ UNCHANGED otherVars

\* axios.post of lam_create_grid rejects and the catch of create-grid runs
FailCreateGrid(i) ==
  /\ i \in 1 .. Len(calls)
  /\ calls[i].op = "create_grid"
  /\ sent' = SendTo(clients, calls[i].sender,
                    [grid |-> Undefined, type |-> "grid-created",
                     error |-> "Failed to create grid"])
  /\ calls' = RemoveAt(calls, i)
  /\ failed' = TRUE
  /\ last' = CreateEvent("fail-create-grid", calls[i].sender, calls[i].gridId, 0)
  /\ UNCHANGED <<memVars, presVars, store, gridData, nCalls, nEdits, newest, lastUpdate>>
  /\ UNCHANGED otherVars

\* the store serves list_grids
LambdaListGrids(i) ==
  /\ i \in 1 .. Len(calls)
  /\ calls[i].stage = "sent"
  /\ calls[i].op = "list_grids"
  /\ calls' = [calls EXCEPT ![i].stage = "replied", ![i].resp = [grids |-> DOMAIN store]]
  /\ sent' = <<>>
  /\ last' = MemEvent("lambda", NoConn, NoMsg)
  /\ UNCHANGED <<memVars, presVars, store, gridData, syncHist, lastUpdate>>
  /\ UNCHANGED otherVars

\* the code after `await lam_list_grids()` of create-grid: grid-list to all
ResumeListGrids(i) ==
  /\ i \in 1 .. Len(calls)
  /\ calls[i].stage = "replied"
  /\ calls[i].op = "list_grids"
  /\ sent' = broadcast(clients, [type |-> "grid-list", grids |-> calls[i].resp.grids])
  /\ calls' = RemoveAt(calls, i)
  /\ last' = CreateEvent("resume-list-grids", calls[i].sender, calls[i].gridId, 1)
  /\ UNCHANGED <<memVars, presVars, store, gridData, syncHist, lastUpdate>>
  /\ UNCHANGED otherVars

\* axios.post of lam_list_grids rejects inside the try of create-grid: the
\* same catch runs
FailListGrids(i) ==
  /\ i \in 1 .. Len(calls)
  /\ calls[i].op = "list_grids"
  /\ sent' = SendTo(clients, calls[i].sender,
                    [grid |-> Undefined, type |-> "grid-created",
                     error |-> "Failed to create grid"])
  /\ calls' = RemoveAt(calls, i)
  /\ failed' = TRUE
  /\ last' = CreateEvent("fail-list-grids", calls[i].sender, calls[i].gridId, 1)
  /\ UNCHANGED <<memVars, presVars, store, gridData, nCalls, nEdits, newest, lastUpdate>>
  /\ UNCHANGED otherVars

CreateNext ==
  \/ \E c \in ConnIds : Connect(c)
  \/ \E c \in ConnIds : Closing(c)
  \/ \E c \in ConnIds : Close(c)
  \/ \E s \in ConnIds, n \in GridNames : CreateGrid(s, n)
  \/ \E i \in 1 .. MaxCalls : LambdaCreateGrid(i)
  \/ \E i \in 1 .. MaxCalls : ResumeCreateGrid(i)
  \/ \E i \in 1 .. MaxCalls : FailCreateGrid(i)
  \/ \E i \in 1 .. MaxCalls : LambdaListGrids(i)
  \/ \E i \in 1 .. MaxCalls : ResumeListGrids(i)
  \/ \E i \in 1 .. MaxCalls : FailListGrids(i)

CreateSpec == MemInit /\ [][CreateNext]_vars


\* ------------------------- cell references: src/unnamed/part_001 and the server
\* a text is the sequence of its character codes: 'A' is 65, '0' is 48
IsUpper(ch) == ch \in 65 .. 90
IsDigit(ch) == ch \in 48 .. 57

\* String(n) of a non-negative integer
RECURSIVE ToDecimal(_)
ToDecimal(n) == IF n < 10 THEN <<48 + n>> ELSE ToDecimal(n \div 10) \o <<48 + (n % 10)>>

\* parseInt(digits, 10) of a text of digits
RECURSIVE parseInt(_, _)
parseInt(digits, acc) ==
  IF digits = <<>> THEN acc ELSE parseInt(Tail(digits), acc * 10 + (Head(digits) - 48))

\* the while loop of generateColHeaders
RECURSIVE ColLetter(_, _)
ColLetter(colNum, colLetter) ==
  IF colNum > 0
  THEN ColLetter((colNum - 1) \div 26, <<65 + ((colNum - 1) % 26)>> \o colLetter)
  ELSE colLetter

\* generateColHeaders(numCols), indexed from 1
generateColHeaders(numCols) == [i \in 1 .. numCols |-> ColLetter(i, <<>>)]

\* the length of the longest prefix of upper-case letters
RECURSIVE UpperPrefix(_)
UpperPrefix(text) ==
  IF text # <<>> /\ IsUpper(Head(text)) THEN 1 + UpperPrefix(Tail(text)) ELSE 0

\* ref.match(/^([A-Z]+)(\d+)$/)
RefMatch(ref) ==
  LET k == UpperPrefix(ref)
  IN IF k >= 1 /\ k < Len(ref) /\ \A i \in k + 1 .. Len(ref) : IsDigit(ref[i])
     THEN [letters |-> SubSeq(ref, 1, k), digits |-> SubSeq(ref, k + 1, Len(ref)), matched |-> TRUE]
     ELSE [matched |-> FALSE]

\* the for loop of cellRefToIndex
RECURSIVE LettersToCol(_, _)
LettersToCol(letters, col) ==
  IF letters = <<>> THEN col
  ELSE LettersToCol(Tail(letters), col * 26 + (Head(letters) - 65 + 1))

NoIndex == [none |-> TRUE]      \* cellRefToIndex: null
Index(r, c) == [col |-> c, row |-> r]

cellRefToIndexNoDecrement(ref) ==
  LET match == RefMatch(ref)
  IN IF ~match.matched THEN NoIndex
     ELSE Index(parseInt(match.digits, 0) - 1, LettersToCol(match.letters, 0))

\* cellRefToIndex(ref)
cellRefToIndex(ref) ==
  LET match == RefMatch(ref)
  IN IF ~match.matched THEN NoIndex
     ELSE Index(parseInt(match.digits, 0) - 1, LettersToCol(match.letters, 0) - 1)

CodecInputs == {Index(r, c) : r \in 0 .. MaxRow, c \in 0 .. MaxCol}

\* texts handed to the decoders: letters (or none, or lower case) followed by
\* digits (or none, zero, leading zeros, a trailing letter)
RefTexts ==
  {l \o d : l \in {<<>>, <<65>>, <<66>>, <<65, 65>>, <<97>>, <<65, 98>>},
            d \in {<<>>, <<48>>, <<49>>, <<57>>, <<48, 49>>, <<49, 48>>, <<48, 48>>,
                   <<49, 120>>, <<50, 53>>}}

CodecInit ==
  /\ ServerInit
  /\ arg \in CodecInputs \cup {[text |-> t] : t \in RefTexts}
  /\ res = NoRes

\* the reference the client shows for a cell: its column header and row + 1
ClientEncode ==
  /\ res = NoRes /\ arg \in CodecInputs
  /\ res' = [ref |-> generateColHeaders(arg.col + 1)[arg.col + 1] \o ToDecimal(arg.row + 1),
             stage |-> "encoded"]
  /\ UNCHANGED <<memVars, sent, last, presVars, syncVars, structVars, editVars, arg>>

ClientDecode ==
  /\ res # NoRes /\ res.stage = "encoded"
  /\ res' = [ref |-> res.ref, stage |-> "decoded", index |-> cellRefToIndex(res.ref)]
  /\ UNCHANGED <<memVars, sent, last, presVars, syncVars, structVars, editVars, arg>>

\* the cellRef the server's cell-edit handler passes to update_cell
ServerEncode ==
  /\ res = NoRes /\ arg \in CodecInputs
  /\ res' = [ref |-> cellRef(<<arg.row, arg.col>>), stage |-> "server-encoded"]
  /\ UNCHANGED <<memVars, sent, last, presVars, syncVars, structVars, editVars, arg>>

\* the changedCells parser on that cellRef: a cellId, or no broadcast at all
ServerDecode ==
  /\ res # NoRes /\ res.stage = "server-encoded"
  /\ res' = [ref |-> res.ref, stage |-> "server-decoded",
             index |-> IF RefMatches(res.ref)
                       THEN Index(cellIdOf(res.ref)[1], cellIdOf(res.ref)[2])
                       ELSE NoIndex]
  /\ UNCHANGED <<memVars, sent, last, presVars, syncVars, structVars, editVars, arg>>

\* cellRefToIndex(text), and the loop body of convertGridDataToRowCol on the
\* key text: the same pattern and arithmetic, the result written `${row}-${col}`
DecodeText ==
  /\ res = NoRes /\ arg \notin CodecInputs
  /\ res' = [cellId |-> LET match == RefMatch(arg.text)
                        IN IF match.matched
                           THEN cellIdOf(Ref(match.letters, parseInt(match.digits, 0)))
                           ELSE NullPos,
             ref |-> arg.text, stage |-> "text-decoded",
             index |-> cellRefToIndex(arg.text)]
  /\ UNCHANGED <<memVars, sent, last, presVars, syncVars, structVars, editVars, arg>>

CodecNext ==
  \/ ClientEncode
  \/ ClientDecode
  \/ ServerEncode
  \/ ServerDecode
  \/ DecodeText

CodecSpec == CodecInit /\ [][CodecNext]_vars


\* ------------------------------------ formulas: src/unnamed/part_001:45-95
\* the characters of code 32 (space) to 122 (z), to write texts with; the
\* two quotes, the backslash and the backquote are spelled out
Ascii ==
  <<" ", "!", "dquote", "#", "$", "%", "&", "quote", "(", ")", "*", "+", ",",
    "-", ".", "/", "0", "1", "2", "3", "4", "5", "6", "7", "8", "9",
    ":", ";", "<", "=", ">", "?", "@", "A", "B", "C", "D", "E", "F",
    "G", "H", "I", "J", "K", "L", "M", "N", "O", "P", "Q", "R", "S",
    "T", "U", "V", "W", "X", "Y", "Z", "[", "backslash", "]", "^", "_", "backquote",
    "a", "b", "c", "d", "e", "f", "g", "h", "i", "j", "k", "l", "m",
    "n", "o", "p", "q", "r", "s", "t", "u", "v", "w", "x", "y", "z">>

\* the text (character codes) of a sequence of one-character strings
Text(chars) == [i \in 1 .. Len(chars) |-> 31 + (CHOOSE k \in 1 .. Len(Ascii) : Ascii[k] = chars[i])]

ToUpper(ch) == IF ch \in 97 .. 122 THEN ch - 32 ELSE ch

\* a JavaScript number: a fraction in lowest terms, or NaN
RECURSIVE Gcd(_, _)
Gcd(a, b) == IF b = 0 THEN a ELSE Gcd(b, a % b)
Num(n, d) == [num |-> n \div Gcd(n, d), den |-> d \div Gcd(n, d)]
NaN == [nan |-> TRUE]
IsNaN(x) == "nan" \in DOMAIN x
Plus(a, b) == Num(a.num * b.den + b.num * a.den, a.den * b.den)
Infinity == [inf |-> TRUE]
\* a / b of two numbers that are not negative: IEEE 754 division never throws
Divide(a, b) ==
  IF b.num = 0 THEN (IF a.num = 0 THEN NaN ELSE Infinity)
  ELSE Num(a.num * b.den, a.den * b.num)

\* String(x) of a number with at most one fractional digit, of NaN
ToText(x) ==
  IF IsNaN(x) THEN Text(<<"N", "a", "N">>)
  ELSE IF x = Infinity THEN Text(<<"I", "n", "f", "i", "n", "i", "t", "y">>)
  ELSE IF x.den = 1 THEN ToDecimal(x.num)
  ELSE ToDecimal(x.num \div x.den) \o Text(<<".">>) \o ToDecimal(((x.num % x.den) * 10) \div x.den)

\* the length of the longest prefix of digits
RECURSIVE DigitPrefix(_)
DigitPrefix(text) ==
  IF text # <<>> /\ IsDigit(Head(text)) THEN 1 + DigitPrefix(Tail(text)) ELSE 0

\* arg.trim()
RECURSIVE TrimLeft(_)
TrimLeft(text) == IF text # <<>> /\ Head(text) = 32 THEN TrimLeft(Tail(text)) ELSE text
RECURSIVE TrimRight(_)
TrimRight(text) ==
  IF text # <<>> /\ text[Len(text)] = 32 THEN TrimRight(SubSeq(text, 1, Len(text) - 1)) ELSE text
Trim(text) == TrimRight(TrimLeft(text))

parseFloatNaN(v) == NaN

\* parseFloat(v) of a text of letters, digits and spaces: the number its
\* longest prefix of digits writes, after leading spaces
parseFloat(v) ==
  LET t == TrimLeft(v)
      k == DigitPrefix(t)
  IN IF k = 0 THEN NaN ELSE Num(parseInt(SubSeq(t, 1, k), 0), 1)

\* Number(val) of such a text: the whole text must be digits (the empty text gives 0)
ToNumber(val) ==
  LET t == Trim(val)
  IN IF t = <<>> THEN Num(0, 1)
     ELSE IF DigitPrefix(t) = Len(t) THEN Num(parseInt(t, 0), 1)
     ELSE NaN

\* getCellValue(row, col): '' outside the sheet
getCellValue(cells, row, col) == IF <<row, col>> \in DOMAIN cells THEN cells[<<row, col>>] ELSE <<>>

Min(a, b) == IF a <= b THEN a ELSE b

\* getRangeValues(range, getCellValue)
getRangeValues(range, cells) ==
  LET colons == {k \in 1 .. Len(range) : range[k] = 58}
      k == CHOOSE c \in colons : TRUE
      start == cellRefToIndex(SubSeq(range, 1, k - 1))
      end == cellRefToIndex(SubSeq(range, k + 1, Len(range)))
  IN IF Cardinality(colons) # 1 THEN <<>>
     ELSE IF start = NoIndex \/ end = NoIndex THEN <<>>
     ELSE LET r0 == Min(start.row, end.row)
              c0 == Min(start.col, end.col)
              n == Max(start.row, end.row) - r0 + 1
              m == Max(start.col, end.col) - c0 + 1
          IN [i \in 1 .. n * m |-> getCellValue(cells, r0 + ((i - 1) \div m), c0 + ((i - 1) % m))]

\* values.reduce((acc, v) => acc + (parseFloat(v) || 0), 0)
RECURSIVE SumValues(_, _)
SumValues(values, acc) ==
  IF values = <<>> THEN acc
  ELSE SumValues(Tail(values),
                 Plus(acc, IF IsNaN(parseFloat(Head(values))) THEN Num(0, 1)
                           ELSE parseFloat(Head(values))))

\* the three branches of the replace callback of evaluateFormula
AverageOf(values) ==
  LET Numeric(v) == ~IsNaN(parseFloat(v))
      nums == SelectSeq(values, Numeric)
      sum == SumValues(nums, Num(0, 1))
  IN IF Len(nums) # 0 THEN Num(sum.num, sum.den * Len(nums)) ELSE Num(0, 1)

CountOfAll(values) == Num(Len(values), 1)

CountOf(values) ==
  LET NonEmpty(v) == v # <<>>
  IN Num(Len(SelectSeq(values, NonEmpty)), 1)

\* (SUM|AVG|COUNT), in the order the pattern tries them
FunctionNames == <<Text(<<"S", "U", "M">>), Text(<<"A", "V", "G">>), Text(<<"C", "O", "U", "N", "T">>)>>

Aggregate(fn, values) ==
  IF fn = FunctionNames[1] THEN SumValues(values, Num(0, 1))
  ELSE IF fn = FunctionNames[2] THEN AverageOf(values)
  ELSE CountOf(values)

\* the pattern is case-insensitive (flag i)
NameAt(text, p, name) ==
  /\ p + Len(name) - 1 <= Len(text)
  /\ \A i \in 1 .. Len(name) : ToUpper(text[p + i - 1]) = name[i]

\* /(SUM|AVG|COUNT)\(([^)]+)\)/ tried at position p
AggregateMatch(text, p) ==
  LET names == {k \in 1 .. Len(FunctionNames) : NameAt(text, p, FunctionNames[k])}
      k == CHOOSE n \in names : \A o \in names : n <= o
      open == p + Len(FunctionNames[k])
      closes == {c \in open + 1 .. Len(text) : text[c] = 41}
      close == CHOOSE c \in closes : \A o \in closes : c <= o
  IN IF names = {} \/ open > Len(text) THEN [matched |-> FALSE]
     ELSE IF text[open] # 40 \/ closes = {} THEN [matched |-> FALSE]
     ELSE IF close = open + 1 THEN [matched |-> FALSE]
     ELSE [arg |-> SubSeq(text, open + 1, close - 1), matched |-> TRUE,
           end |-> close, fn |-> FunctionNames[k]]

\* formula.replace(/(SUM|AVG|COUNT)\(([^)]+)\)/gi, ...), from position p on
RECURSIVE ReplaceAggregates(_, _, _)
ReplaceAggregates(text, p, cells) ==
  IF p > Len(text) THEN <<>>
  ELSE LET m == AggregateMatch(text, p)
       IN IF m.matched
          THEN ToText(Aggregate(m.fn, getRangeValues(Trim(m.arg), cells)))
                 \o ReplaceAggregates(text, m.end + 1, cells)
          ELSE <<text[p]>> \o ReplaceAggregates(text, p + 1, cells)

ErrText == Text(<<"#", "E", "R", "R">>)
Threw == [threw |-> TRUE]          \* RangeError: Maximum call stack size exceeded
Unmodelled == [unmodelled |-> TRUE] \* an expression outside the ones evaluated here

\* a text is a decimal literal: digits, or digits '.' digits
IsLiteral(text) ==
  LET k == DigitPrefix(text)
  IN /\ k >= 1
     /\ \/ k = Len(text)
        \/ /\ k + 1 < Len(text)
           /\ text[k + 1] = 46
           /\ DigitPrefix(SubSeq(text, k + 2, Len(text))) = Len(text) - k - 1

RECURSIVE Pow10(_)
Pow10(n) == IF n = 0 THEN 1 ELSE 10 * Pow10(n - 1)

Literal(text) ==
  LET k == DigitPrefix(text)
  IN IF k = Len(text) THEN Num(parseInt(text, 0), 1)
     ELSE Num(parseInt(SubSeq(text, 1, k) \o SubSeq(text, k + 2, Len(text)), 0),
              Pow10(Len(text) - k - 1))

\* eval(expr) of a literal, or of the sum or quotient of two literals
Eval(expr) ==
  LET ops == {k \in 1 .. Len(expr) : expr[k] \in {43, 47}}
      k == CHOOSE c \in ops : TRUE
  IN IF IsLiteral(expr) THEN Literal(expr)
     ELSE IF /\ Cardinality(ops) = 1
             /\ IsLiteral(SubSeq(expr, 1, k - 1))
             /\ IsLiteral(SubSeq(expr, k + 1, Len(expr)))
     THEN IF expr[k] = 43
          THEN Plus(Literal(SubSeq(expr, 1, k - 1)), Literal(SubSeq(expr, k + 1, Len(expr))))
          ELSE Divide(Literal(SubSeq(expr, 1, k - 1)), Literal(SubSeq(expr, k + 1, Len(expr))))
     ELSE Unmodelled

\* /[^0-9+\-*/(). ]/.test(expr)
HasOtherChar(expr) ==
  \E i \in 1 .. Len(expr) : ~IsDigit(expr[i]) /\ expr[i] \notin {43, 45, 42, 47, 40, 41, 46, 32}

\* what String(...) makes of a result of evaluateFormula
ResultText(x) == IF "text" \in DOMAIN x THEN x.text ELSE ToText(x)

RECURSIVE evaluateFormula(_, _, _)
RECURSIVE ReplaceRefs(_, _, _, _)

\* the callback of formula.replace(/([A-Z]+\d+)/g, ...)
RefValue(ref, cells, depth) ==
  LET idx == cellRefToIndex(ref)
      val == getCellValue(cells, idx.row, idx.col)
      inner == evaluateFormula(Tail(val), cells, depth + 1)
  IN IF idx = NoIndex THEN Text(<<"0">>)
     ELSE IF val # <<>> /\ Head(val) = 61
     THEN IF inner = Threw THEN Text(<<"0">>) ELSE ResultText(inner)
     ELSE IF val = <<>> \/ IsNaN(ToNumber(val)) THEN Text(<<"0">>)
     ELSE ToText(ToNumber(val))

\* formula.replace(/([A-Z]+\d+)/g, ...), from position p on
ReplaceRefs(text, p, cells, depth) ==
  IF p > Len(text) THEN <<>>
  ELSE LET rest == SubSeq(text, p, Len(text))
           u == UpperPrefix(rest)
           d == DigitPrefix(SubSeq(rest, u + 1, Len(rest)))
       IN IF u >= 1 /\ d >= 1
          THEN RefValue(SubSeq(rest, 1, u + d), cells, depth)
                 \o ReplaceRefs(text, p + u + d, cells, depth)
          ELSE <<text[p]>> \o ReplaceRefs(text, p + 1, cells, depth)

\* evaluateFormula(formula, getCellValue); the call stack holds MaxDepth calls
evaluateFormula(formula, cells, depth) ==
  IF depth > MaxDepth THEN Threw
  ELSE LET expr == ReplaceRefs(ReplaceAggregates(formula, 1, cells), 1, cells, depth)
       IN IF HasOtherChar(expr) THEN [text |-> ErrText] ELSE Eval(expr)

\* the sheet: column A, rows 1..SheetRows
SheetCells == {<<r, 0>> : r \in 0 .. SheetRows - 1}
CellTexts == {<<>>, Text(<<"1">>), Text(<<"2">>), Text(<<"x">>), Text(<<"h", "e", "l", "l", "o">>),
              Text(<<"=", "A", "1">>)}
Formulas ==
  {Text(<<"=", "S", "U", "M", "(", "A", "1", ":", "A", "3", ")">>),
   Text(<<"=", "s", "u", "m", "(", " ", "A", "3", ":", "A", "1", " ", ")">>),
   Text(<<"=", "A", "V", "G", "(", "A", "1", ":", "A", "2", ")">>),
   Text(<<"=", "A", "V", "E", "R", "A", "G", "E", "(", "A", "1", ":", "A", "2", ")">>),
   Text(<<"=", "C", "O", "U", "N", "T", "(", "A", "1", ":", "A", "3", ")">>),
   Text(<<"=", "A", "1", "+", "A", "2">>),
   Text(<<"=", "S", "U", "M", "(", "A", "1", ")">>),
   Text(<<"=", "C", "O", "U", "N", "T", "(", "A", "1", ")">>),
   Text(<<"=", "S", "U", "M", "(", "A", "1", ":", "A", "1", ")">>),
   Text(<<"=", "C", "O", "U", "N", "T", "(", "A", "1", ":", "A", "1", ")">>),
   Text(<<"=", "S", "U", "M", "(", "A", "1", ":", "A", "2", ")", "+", "C", "O", "U", "N", "T",
       "(", "A", "3", ":", "A", "3", ")">>)}

\* sheets of A1 and B1 whose formulas refer to each other or to themselves
CycleInputs ==
  [formula : {Text(<<"=", "A", "1">>), Text(<<"=", "B", "1">>)},
   cells : [{<<0, 0>>, <<0, 1>>} ->
              {Text(<<"=", "A", "1">>), Text(<<"=", "B", "1">>), Text(<<"1">>)}]]

\* quotients, written out or of A1 and B1
DivisionInputs ==
  [formula : {Text(<<"=", "1", "/", "0">>), Text(<<"=", "1", "/", "2">>),
              Text(<<"=", "A", "1", "/", "B", "1">>)},
   cells : [{<<0, 0>>, <<0, 1>>} -> {<<>>, Text(<<"1">>), Text(<<"2">>)}]]

FormulaInit ==
  /\ ServerInit
  /\ arg \in [formula : Formulas, cells : [SheetCells -> CellTexts]]
              \cup CycleInputs \cup DivisionInputs
  /\ res = NoRes

\* a raw value that starts with '=' is evaluated without it: val.slice(1)
Evaluate ==
  /\ res = NoRes
  /\ res' = [value |-> evaluateFormula(Tail(arg.formula), arg.cells, 1)]
  /\ UNCHANGED <<memVars, sent, last, presVars, syncVars, structVars, editVars, arg>>

\* the result is rendered: String(result)
Render ==
  /\ res # NoRes /\ "text" \notin DOMAIN res
  /\ res' = [value |-> res.value, text |-> ResultText(res.value)]
  /\ UNCHANGED <<memVars, sent, last, presVars, syncVars, structVars, editVars, arg>>

FormulaNext ==
  \/ Evaluate
  \/ Render

FormulaSpec == FormulaInit /\ [][FormulaNext]_vars

\* ------------------------------------------------- claims on src/server.js
OpenConns(cl) == {c \in ConnIds : cl[c].status = "open"}

\* the last handler run was a cell-edit that carried a timestamp and found a
\* record under its cellId
StampedEditOfExisting == last.type = "cell-edit" /\ last.prev.exists /\ last.msg.hasTs

\* C1: for a cell whose stored lastUpdated is T, a cell-edit stamped below T
\* leaves the stored record as it was, and a cell-edit stamped T or above
\* (ties included) replaces the stored value with the edit's value and writer.
C1_LastWriteWins ==
  StampedEditOfExisting =>
    LET m == last.msg
        T == last.prev.lastUpdated
    IN /\ m.timestamp < T => grid[m.cellId] = last.prev
       /\ m.timestamp >= T => /\ grid[m.cellId].value = m.value
                              /\ grid[m.cellId].lastUpdatedBy = last.sender
                              /\ grid[m.cellId].lastUpdated >= T

\* a tie: an edit stamped exactly T replaced another value written at T
C1_Witness ==
  /\ StampedEditOfExisting
  /\ last.msg.timestamp = last.prev.lastUpdated
  /\ last.prev.value # last.msg.value
  /\ last.prev.lastUpdatedBy # NoConn
  /\ grid[last.msg.cellId].value = last.msg.value

\* C2: no step of the server removes a cell record or lowers its lastUpdated.
C2_MonotonicPerCell ==
  [][\A c \in Cells :
       grid[c].exists =>
         grid'[c].exists /\ grid'[c].lastUpdated >= grid[c].lastUpdated]_vars

\* a user's write stamped in the server's future was kept against an older
\* edit by another connection
C2_Witness ==
  /\ StampedEditOfExisting
  /\ last.prev.lastUpdatedBy \notin {NoConn, last.sender}
  /\ last.prev.lastUpdated > now
  /\ last.msg.timestamp # 0
  /\ last.msg.timestamp < last.prev.lastUpdated
  /\ grid[last.msg.cellId] = last.prev

\* C4: a cell-edit stamped below the stored lastUpdated sends nothing: no
\* cell-update to any connection, no error to the sender.
C4_RejectedEditIsSilent ==
  (StampedEditOfExisting /\ last.msg.timestamp < last.prev.lastUpdated) => sent = <<>>

\* an older edit was dropped while two connections were open to hear of it
C4_Witness ==
  /\ StampedEditOfExisting
  /\ last.msg.timestamp < last.prev.lastUpdated
  /\ Cardinality(OpenConns(memClients)) >= 2
  /\ sent = <<>>

\* C5 (as claimed): a cell-edit without timestamp to an existing cell whose
\* lastUpdated is not in the future is stored with lastUpdated = receive time
\* and broadcast to the open connections.
C5_UnstampedEditApplied ==
  (last.type = "cell-edit" /\ ~last.msg.hasTs /\ last.prev.exists
     /\ last.prev.lastUpdated <= now) =>
    /\ grid[last.msg.cellId] = Cell(last.msg.value, now, last.sender)
    /\ sent = broadcast(memClients,
                [value |-> last.msg.value, lastUpdatedBy |-> last.sender,
                 type |-> "cell-update", cellId |-> last.msg.cellId,
                 timestamp |-> now])

\* ------------------------- claims on src/web-socket-server/server.js: presence
\* the messages of the last handler run sent to r, in order
SentTo(r) ==
  LET toR == SelectSeq(sent, LAMBDA x : x.to = r)
  IN [i \in 1 .. Len(toR) |-> toR[i].msg]

ListedIds(m) == {e.userId : e \in m.users}

\* C8: every user-list message lists only connections that have sent set-name.
C8_UnnamedNeverListed ==
  \A i \in 1 .. Len(sent) :
    sent[i].msg.type = "user-list" => ListedIds(sent[i].msg) \subseteq hasSetName

\* a user-list with a user in it goes out while an open connection has sent
\* no set-name
C8_Witness ==
  \E i \in 1 .. Len(sent) :
    /\ sent[i].msg.type = "user-list"
    /\ sent[i].msg.users # {}
    /\ \E c \in ConnIds : clients[c].status = "open" /\ c \notin hasSetName

\* the message names connection u: as a listed user or as its userId
Mentions(m, u) ==
  CASE m.type = "user-list" -> u \in ListedIds(m)
    [] m.type \in {"user-position-update", "user-leave"} -> m.userId = u
    [] OTHER -> FALSE

\* C9 (as claimed): no message sent to another connection names a connection
\* that has sent no set-name, and no other client holds an otherUsers entry
\* (the cursor it draws) for such a connection.
C9_UnnamedInvisible ==
  \A u \in ConnIds \ hasSetName :
    /\ \A i \in 1 .. Len(sent) : sent[i].to # u => ~Mentions(sent[i].msg, u)
    /\ \A c \in ConnIds \ {u} : ~otherUsers[c][u].known

\* C10: the close handler has removed the presence entry, and every remaining
\* open connection is sent exactly user-leave for the closed connection and
\* then a user-list without it; nothing is sent to a connection that is not
\* open, and no user-list names a closed connection.
C10_CloseOrder ==
  /\ last.type = "close" =>
       /\ clients[last.sender] = Gone
       /\ \A r \in ConnIds :
            IF clients[r].status = "open"
            THEN /\ Len(SentTo(r)) = 2
                 /\ SentTo(r)[1] = [userId |-> last.sender, type |-> "user-leave"]
                 /\ SentTo(r)[2].type = "user-list"
                 /\ last.sender \notin ListedIds(SentTo(r)[2])
            ELSE SentTo(r) = <<>>
  /\ \A i \in 1 .. Len(sent) :
       /\ clients[sent[i].to].status = "open"
       /\ sent[i].msg.type = "user-list" =>
            \A u \in ListedIds(sent[i].msg) : clients[u] # Gone

\* a connection that had set its name closed while another was open
C10_Witness ==
  /\ last.type = "close"
  /\ last.sender \in hasSetName
  /\ Len(sent) = 2
  /\ \E r \in ConnIds : clients[r].status = "open" /\ Truthy(clients[r].name)



\* ---------------------------------------------- claims on grids and cells
\* no Lambda call is in flight and none has failed; every message sent has
\* been handled by its client
Quiescent == calls = <<>> /\ ~failed

\* C3: two cell-edits to one cell of one grid, stamped t1 < t2: whatever the
\* order the server receives them in and the order their update_cell calls
\* complete in, once both are complete the last cell-update broadcast for the
\* cell carries the value of the edit stamped t2.
C3_TimestampWins ==
  \A x \in SyncCells :
    Quiescent /\ newest[x] # NoUpdate /\ ~newest[x].tied
      => lastUpdate[x].rawValue = newest[x].value

\* C6: a cell-edit from a connection with a selected grid sends a cell-update
\* for the edited cell, with the value of the edit, to every connection that
\* is open at that moment, the sender included.
C6_EditReachesEveryOpenConnection ==
  last.type = "cell-edit" /\ last.gridId # NoGrid
    => \A c \in OpenConns(clients) :
         \E i \in 1 .. Len(sent) :
           /\ sent[i].to = c
           /\ sent[i].msg.type = "cell-update"
           /\ sent[i].msg.cellId = last.msg.cellId
           /\ sent[i].msg.rawValue = last.msg.value

\* an edit from a connection with a grid, while another connection, which has
\* selected no grid, is open too: both get the cell-update
C6_Witness ==
  /\ last.type = "cell-edit" /\ last.gridId # NoGrid
  /\ Len(sent) = 2
  /\ sent[1].msg.type = "cell-update"
  /\ \E c \in OpenConns(clients) : c # last.sender /\ clients[c].selectedGridId = NoGrid
  /\ \E i \in 1 .. Len(sent) : sent[i].to = last.sender

\* C7: once editing has stopped and every message and Lambda call is complete,
\* every open client that has selected a grid shows, for every cell, the raw
\* and computed value the store holds for that grid.
C7_EventualConvergence ==
  Quiescent =>
    \A c \in OpenConns(clients) :
      clients[c].selectedGridId \in GridIds =>
        \A x \in SyncCells :
          LET raw == store[clients[c].selectedGridId][cellRef(x)]
          IN gridData[c][x] = ViewCell(raw, LambdaCompute(raw))

\* C14 (as claimed): a cell-edit from a connection without a selected grid
\* broadcasts no cell-update, issues no call to the store, and sends the
\* sender an error message.
C14_NoGridEditNotified ==
  last.type = "cell-edit" /\ last.gridId = NoGrid
    => /\ \A i \in 1 .. Len(sent) : sent[i].msg.type # "cell-update"
       /\ \E i \in 1 .. Len(sent) : sent[i].to = last.sender /\ "error" \in DOMAIN sent[i].msg

\* C15 (as claimed): a select-grid from a connection that has set no name
\* leaves its selected grid unset and issues no call to the store for it.
C15_SelectGridNeedsName ==
  last.type = "select-grid" /\ ~Truthy(clients[last.sender].name)
    => /\ clients[last.sender].selectedGridId = NoGrid
       /\ \A i \in 1 .. Len(calls) : calls[i].sender # last.sender


StructuralFailure ==
  \/ last.type = "resume-structural" /\ HasError(last.msg)
  \/ last.type = "fail-structural"

\* C12: when a structural operation fails, the sender alone is sent a
\* grid-dimension-error and no grid-dimensions-changed is sent to anyone.
C12_FailureOnlyToSender ==
  StructuralFailure
    => /\ \A i \in 1 .. Len(sent) :
            sent[i].to = last.sender /\ sent[i].msg.type = "grid-dimension-error"
       /\ clients[last.sender].status = "open" => Len(sent) = 1

\* the call threw while the sender and another connection were open
C12_Witness ==
  /\ last.type = "fail-structural"
  /\ Len(sent) = 1
  /\ \E c \in OpenConns(clients) : c # last.sender

\* C13: a structural message from a connection without a selected grid sends
\* the sender alone a grid-dimension-error and issues no call to the store.
C13_NoGridStructuralRejected ==
  [][last'.type = "structural" /\ last'.gridId = NoGrid
       => /\ sent' = <<[msg |-> DimensionError("No grid selected"), to |-> last'.sender]>>
          /\ calls' = calls
          /\ nCalls' = nCalls]_vars

\* such a message arrived while another connection was open and a call of
\* that other connection was in flight
C13_Witness ==
  /\ last.type = "structural" /\ last.gridId = NoGrid
  /\ Len(sent) = 1
  /\ \E c \in OpenConns(clients) : c # last.sender
  /\ calls # <<>>


\* ------------------------------------------- claims on cell references
\* C16: decoding with cellRefToIndex the reference made of the column header
\* of generateColHeaders and of row + 1 gives back the row and the column.
C16_ClientRoundTrip ==
  res # NoRes /\ res.stage = "decoded" => res.index = arg

\* a three-letter column and a two-digit row number went round
C16_Witness ==
  /\ res # NoRes /\ res.stage = "decoded"
  /\ Len(res.ref) = 5
  /\ arg.col >= 702 /\ arg.row >= 9
  /\ res.index = arg

\* C17 (as claimed): the cellRef the server passes to update_cell for a
\* cellId, parsed back by the server's changedCells parser, gives that cellId.
C17_ServerRoundTrip ==
  res # NoRes /\ res.stage = "server-decoded" => res.index = arg


\* ---------------------------------------------------- claims on formulas
\* the value a text has as a number in a sum: its value if it is written in
\* digits only, 0 if it is blank or anything else
NumericValue(v) ==
  IF v # <<>> /\ \A i \in 1 .. Len(v) : IsDigit(v[i]) THEN parseInt(v, 0) ELSE 0

IsNumeric(v) == v # <<>> /\ \A i \in 1 .. Len(v) : IsDigit(v[i])

A1 == <<0, 0>>
A2 == <<1, 0>>
A3 == <<2, 0>>

Evaluated(chars) == res # NoRes /\ arg.formula = Text(chars)

\* C18: "=SUM(A1:A3)" evaluates to the sum of the values of A1, A2 and A3
\* that are numbers, the others counting as 0.
C18_SumOfRange ==
  Evaluated(<<"=", "S", "U", "M", "(", "A", "1", ":", "A", "3", ")">>)
    => res.value = Num(NumericValue(arg.cells[A1]) + NumericValue(arg.cells[A2])
                         + NumericValue(arg.cells[A3]), 1)

\* A1 = "1", A2 = "2", A3 = "x": 3
C18_Witness ==
  /\ Evaluated(<<"=", "S", "U", "M", "(", "A", "1", ":", "A", "3", ")">>)
  /\ arg.cells[A1] = Text(<<"1">>) /\ arg.cells[A2] = Text(<<"2">>) /\ arg.cells[A3] = Text(<<"x">>)
  /\ res.value = Num(3, 1)

\* C19 (as claimed): "=AVERAGE(A1:A2)" evaluates to the sum of the numeric
\* values of A1 and A2 divided by their count, and to 0 when neither is
\* numeric.
C19_AverageOfRange ==
  Evaluated(<<"=", "A", "V", "E", "R", "A", "G", "E", "(", "A", "1", ":", "A", "2", ")">>)
    => LET nums == {x \in {A1, A2} : IsNumeric(arg.cells[x])}
       IN res.value = IF nums = {} THEN Num(0, 1)
                      ELSE Num(NumericValue(arg.cells[A1]) + NumericValue(arg.cells[A2]),
                               Cardinality(nums))

\* C20: "=COUNT(A1:A3)" evaluates to the number of the values of A1, A2 and
\* A3 that are not blank, text that is no number included.
C20_CountOfRange ==
  Evaluated(<<"=", "C", "O", "U", "N", "T", "(", "A", "1", ":", "A", "3", ")">>)
    => res.value = Num(Cardinality({x \in {A1, A2, A3} : arg.cells[x] # <<>>}), 1)

\* A1 = "1", A2 = "", A3 = "hello": 2
C20_Witness ==
  /\ Evaluated(<<"=", "C", "O", "U", "N", "T", "(", "A", "1", ":", "A", "3", ")">>)
  /\ arg.cells[A1] = Text(<<"1">>) /\ arg.cells[A2] = <<>>
  /\ arg.cells[A3] = Text(<<"h", "e", "l", "l", "o">>)
  /\ res.value = Num(2, 1)

B1 == <<0, 1>>

\* the cell a text of the form "=A1" or "=B1" refers to
Target(text) == IF text = Text(<<"=", "A", "1">>) THEN A1 ELSE B1

\* the references followed from the formula never reach a value
OnCycle ==
  /\ arg \in CycleInputs
  /\ arg.cells[Target(arg.formula)] # Text(<<"1">>)
  /\ arg.cells[Target(arg.cells[Target(arg.formula)])] # Text(<<"1">>)

\* C21 (as claimed): evaluating a cell whose references form a cycle, such as
\* A1 = "=B1" with B1 = "=A1", yields '#ERR'.
C21_CycleYieldsErr ==
  res # NoRes /\ OnCycle => res.value = [text |-> ErrText]

\* what the code yields: the call stack overflows, the callback's catch turns
\* the RangeError into '0', and every caller evaluates "0" to the number 0
C21_CycleYieldsZero ==
  res # NoRes /\ OnCycle => res.value = Num(0, 1)

C21_CycleEvaluated ==
  /\ res # NoRes /\ OnCycle
  /\ arg.formula = Text(<<"=", "A", "1">>)
  /\ arg.cells[A1] = Text(<<"=", "B", "1">>) /\ arg.cells[B1] = Text(<<"=", "A", "1">>)

\* C22: ensureGridSize never removes or overwrites a cell record that exists,
\* and a second call right after a first one creates, changes and removes
\* nothing, whatever the clock reads by then.
C22_EnsureGridSizeIdempotent ==
  [][last'.type = "connection" /\ last'.sender \in DOMAIN memClients
       /\ memClients'[last'.sender] # memClients[last'.sender]
     => /\ grid' = ensureGridSize(grid, now)
        /\ \A c \in Keys(grid) : grid'[c] = grid[c]
        /\ \A t \in 0 .. MaxTime : ensureGridSize(grid', t) = grid']_vars

\* a connection made after an edit, at a later reading of the clock
C22_Witness ==
  /\ last.type = "connection"
  /\ \E c \in Keys(grid) : grid[c].value # "" /\ grid[c].lastUpdated < now
  /\ \E c \in Keys(grid) : grid[c].value = "" /\ grid[c].lastUpdated = now

\* C23 (as claimed): when the update_cell call made for a cell-edit fails, the
\* sender is sent an error notification.
C23_FailedEditNotified ==
  last.type = "fail-cell-edit" /\ clients[last.sender].status = "open"
    => \E i \in DOMAIN sent : sent[i].to = last.sender

\* C24: a message that cannot be parsed, or whose handling raises, is ignored:
\* the connection stays open, nothing is sent, no presence, grid-selection or
\* other server state changes, and the next message of the same connection
\* is handled as it would have been.
C24_BadMessageIgnored ==
  /\ [][last'.type = "bad-message"
          => /\ sent' = <<>>
             /\ UNCHANGED <<clients, otherUsers, hasSetName, calls, store, gridData>>
             /\ clients'[last'.sender].status = "open"]_vars
  /\ [](last.type = "bad-message"
          => /\ ENABLED SetName(last.sender, "ann")
             /\ ENABLED BadMessage(last.sender, "not-json"))

\* a cell-edit without a cellId from a named connection with a grid selected
C24_Witness ==
  /\ last.type = "bad-message" /\ last.msg.kind = "cell-edit-no-cellId"
  /\ clients[last.sender].selectedGridId = "g1"
  /\ clients[last.sender].name = "ann"

\* another open connection on the same grid has the edited cell focused
EditedElsewhere ==
  \E d \in ConnIds :
    /\ d # last.sender
    /\ clients[d].status = "open"
    /\ clients[d].selectedGridId = last.gridId
    /\ editingCell[d] = last.msg.cellId

\* C25 (as claimed): while one connection is editing a cell, a cell-edit for
\* that cell from a different connection is neither broadcast nor passed to
\* the store.
C25_CellLocked ==
  last.type = "cell-edit" /\ Truthy(last.gridId) /\ EditedElsewhere
    => /\ sent = <<>>
       /\ \A i \in DOMAIN calls : calls[i].op # "update_cell"

\* the sends are one cell-update for cell x with the given values to each
\* open connection of cl
OneUpdateEach(out, cl, x, raw, computed) ==
  /\ {out[k].to : k \in DOMAIN out} = OpenConns(cl)
  /\ Len(out) = Cardinality(OpenConns(cl))
  /\ \A k \in DOMAIN out :
       /\ out[k].msg.type = "cell-update"
       /\ out[k].msg.cellId = x
       /\ out[k].msg.rawValue = raw
       /\ out[k].msg.computedValue = computed

\* C26: a cell-edit on a grid of the store is answered in two steps.  The
\* step that receives it broadcasts a cell-update whose computedValue is the
\* raw value and puts the update_cell call in flight, unanswered; an
\* update_cell call is put in flight by no other step.  The cell-updates made
\* from the answer are broadcast by a later step, which takes an answered
\* call out of those in flight.
C26_TwoPhaseUpdate ==
  [][/\ last'.type = "cell-edit" /\ last'.gridId \in GridIds
          => /\ OneUpdateEach(sent', clients, last'.msg.cellId, last'.msg.value,
                              last'.msg.value)
             /\ calls' = Append(calls, calls'[Len(calls')])
             /\ calls'[Len(calls')].op = "update_cell"
             /\ calls'[Len(calls')].stage = "sent"
             /\ calls'[Len(calls')].rawValue = last'.msg.value
     /\ (\E i \in DOMAIN calls' :
            calls'[i].op = "update_cell" /\ calls'[i].stage = "sent"
              /\ \A j \in DOMAIN calls : calls[j] # calls'[i])
          => last'.type = "cell-edit"
     /\ last'.type = "resume-cell-edit"
          => \E i \in DOMAIN calls :
               /\ calls[i].op = "update_cell" /\ calls[i].stage = "replied"
               /\ calls' = RemoveAt(calls, i)
               /\ OneUpdateEach(sent', clients, cellIdOf(calls[i].ref), calls[i].rawValue,
                                LambdaCompute(calls[i].rawValue))]_vars

\* the answer to the edit "=1+1" is broadcast: computedValue "2"
C26_Witness ==
  /\ last.type = "resume-cell-edit"
  /\ Len(sent) = 2
  /\ sent[1].msg.rawValue = "=1+1" /\ sent[1].msg.computedValue = "2"

\* the cellId of the references a change set lists
ExpectedCellId(r) ==
  CASE r = Ref(<<65>>, 1) -> <<0, 0>>
    [] r = Ref(<<66>>, 1) -> <<0, 1>>
    [] r = Ref(<<65, 65>>, 2) -> <<1, 26>>

\* how many elements of sequence q satisfy Test
CountIn(q, Test(_)) == Cardinality({i \in DOMAIN q : Test(q[i])})

\* C27: for a change set of an update_cell response, every open connection
\* is sent one cell-update for every cell the set lists, with that cell's
\* cellId, rawValue and computedValue, and nothing else is sent.
C27_ChangeSetBroadcast ==
  res # NoRes /\ arg \in ChangeInputs =>
    /\ Len(res.sends) = Len(arg.changed) * Cardinality(OpenConns(arg.cl))
    /\ \A k \in DOMAIN arg.changed : \A c \in OpenConns(arg.cl) :
         CountIn(res.sends,
                 LAMBDA x : /\ x.to = c
                            /\ x.msg.type = "cell-update"
                            /\ x.msg.cellId = ExpectedCellId(arg.changed[k].cellCoordinate)
                            /\ x.msg.rawValue = arg.changed[k].rawValue
                            /\ x.msg.computedValue = arg.changed[k].computedValue
                            /\ x.msg.lastUpdatedBy = arg.by)
           = CountIn(arg.changed, LAMBDA y : y = arg.changed[k])

\* A1 computed 5 and its dependent B1 computed 15, with two open connections
C27_Witness ==
  /\ res # NoRes /\ arg \in ChangeInputs
  /\ arg.changed = <<[rawValue |-> "5", computedValue |-> "5", cellCoordinate |-> Ref(<<65>>, 1)],
                      [rawValue |-> "=A1+10", computedValue |-> "15",
                       cellCoordinate |-> Ref(<<66>>, 1)]>>
  /\ Cardinality(OpenConns(arg.cl)) = 2
  /\ Len(res.sends) = 4

\* C28 (as claimed): when the get_grid_data call of a select-grid fails, the
\* connection's selected grid is the one it had before the request: none,
\* when that select-grid made the only call the server ever issued.
C28_FailedSelectKeepsGrid ==
  last.type = "fail-select-grid" /\ nCalls = 1 /\ clients[last.sender].status = "open"
    => clients[last.sender].selectedGridId = NoGrid

\* C29 (as claimed): once the full-grid of a select-grid has been applied and
\* no update_cell call is in flight, the selecting client shows no cell value
\* other than the store's: an edit the snapshot misses reaches the client
\* after the full-grid and is not overwritten by it.
C29_SnapshotNotStale ==
  (/\ last.type = "resume-select-grid"
   /\ ~failed
   /\ \A i \in DOMAIN calls : calls[i].op # "update_cell"
   /\ clients[last.sender].status = "open"
   /\ clients[last.sender].selectedGridId \in GridIds)
    => \A x \in SyncCells :
         gridData[last.sender][x].rawValue
           = store[clients[last.sender].selectedGridId][cellRef(x)]

\* C30 (as claimed): grid-dimensions-changed messages are broadcast in the
\* order the store applied the changes: once no structural call is in flight
\* and none has failed, the newDimensions of the last one broadcast are the
\* dimensions the store holds for the grid.
C30_DimensionsInStoreOrder ==
  (/\ last.type = "resume-structural"
   /\ ~failed
   /\ \A i \in DOMAIN calls : calls[i].op \notin StructuralOps)
    => \A k \in DOMAIN sent :
         sent[k].msg.type = "grid-dimensions-changed"
           => sent[k].msg.newDimensions = dims[sent[k].msg.gridId]

\* C31 (as claimed): in src/server.js a delete-row message removes every cell
\* record of the last row and sends row-deleted with that row's index to
\* every open connection.
C31_DeleteRowRemovesLastRow ==
  last.type = "delete-row" =>
    \A c \in OpenConns(memClients) :
      \E i \in DOMAIN sent :
        /\ sent[i].to = c
        /\ sent[i].msg.type = "row-deleted"
        /\ \A x \in Cells : x[1] = sent[i].msg.rowIndex => ~grid[x].exists

\* ^[A-Z]+[1-9][0-9]*$
WellFormedRef(text) ==
  \E k \in 1 .. Len(text) - 1 :
    /\ \A i \in 1 .. k : text[i] \in 65 .. 90
    /\ text[k + 1] \in 49 .. 57
    /\ \A i \in k + 2 .. Len(text) : text[i] \in 48 .. 57

\* C32 (as claimed): a text that does not match ^[A-Z]+[1-9][0-9]*$, such as
\* "A0" or "A01", is rejected by cellRefToIndex and skipped by
\* convertGridDataToRowCol, so neither produces a negative row.
C32_MalformedRefRejected ==
  res # NoRes /\ res.stage = "text-decoded" =>
    /\ ~WellFormedRef(res.ref) => res.index = NoIndex /\ res.cellId = NullPos
    /\ res.index # NoIndex => res.index.row >= 0
    /\ res.cellId # NullPos => res.cellId[1] >= 0

\* C33 (as claimed): an aggregate takes a single reference as its range:
\* "=SUM(A1)" is the numeric value of A1 and "=COUNT(A1)" is 1 when A1 is not
\* blank, as with the one-cell range A1:A1.
C33_SingleReferenceRange ==
  /\ Evaluated(<<"=", "S", "U", "M", "(", "A", "1", ")">>)
       => res.value = Num(NumericValue(arg.cells[A1]), 1)
  /\ Evaluated(<<"=", "C", "O", "U", "N", "T", "(", "A", "1", ")">>)
       => res.value = Num(IF arg.cells[A1] # <<>> THEN 1 ELSE 0, 1)

\* what the code yields: 0 for both, whatever A1 holds; the one-cell range
\* gives the value and the count
C33_SingleReferenceIsEmpty ==
  /\ Evaluated(<<"=", "S", "U", "M", "(", "A", "1", ")">>) => res.value = Num(0, 1)
  /\ Evaluated(<<"=", "C", "O", "U", "N", "T", "(", "A", "1", ")">>) => res.value = Num(0, 1)
  /\ Evaluated(<<"=", "S", "U", "M", "(", "A", "1", ":", "A", "1", ")">>)
       => res.value = Num(NumericValue(arg.cells[A1]), 1)
  /\ Evaluated(<<"=", "C", "O", "U", "N", "T", "(", "A", "1", ":", "A", "1", ")">>)
       => res.value = Num(IF arg.cells[A1] # <<>> THEN 1 ELSE 0, 1)

\* the expression left by the substitution divides by zero
DividesByZero ==
  /\ res # NoRes /\ arg \in DivisionInputs
  /\ \/ arg.formula = Text(<<"=", "1", "/", "0">>)
     \/ arg.formula = Text(<<"=", "A", "1", "/", "B", "1">>) /\ arg.cells[B1] = <<>>

\* C34 (as claimed): a formula whose expression divides by zero, "=1/0" or
\* "=A1/B1" with B1 blank, evaluates to '#ERR'.
C34_DivisionByZeroIsErr ==
  DividesByZero => res.value = [text |-> ErrText]

\* what the code yields: Infinity, or NaN for 0/0
C34_DivisionByZeroIsInfinity ==
  DividesByZero => res.value \in {Infinity, NaN}

\* C35 (as claimed): the server reports no populated cell outside the current
\* dimensions: a cell-update a cell-edit makes the server send carries a
\* cellId whose row and column lie inside the dimensions the store holds for
\* the sender's selected grid, also after a row of that grid was deleted.
C35_UpdateInsideDimensions ==
  (/\ last.type = "cell-edit"
   /\ clients[last.sender].selectedGridId \in DOMAIN dims)
    => \A k \in DOMAIN sent :
         sent[k].msg.type = "cell-update"
           => sent[k].msg.cellId \in CellsOf(dims[clients[last.sender].selectedGridId])

\* the grid-created messages a handler run sent to connection c
GridCreatedTo(c) ==
  {k \in DOMAIN sent : sent[k].to = c /\ sent[k].msg.type = "grid-created"}

\* C36 (as claimed): a create-grid request brings its sender exactly one
\* grid-created, with the new grid or with an error: a run of its handler
\* sends none once the request has sent one, the run that ends the request
\* leaves an open sender with one, and one with an error is sent only when
\* the store made no grid for the request.
C36_OneGridCreated ==
  (/\ last.type \in {"resume-create-grid", "fail-create-grid",
                     "resume-list-grids", "fail-list-grids"}
   /\ clients[last.sender].status = "open")
    => /\ last.msg.notified + Cardinality(GridCreatedTo(last.sender)) <= 1
       /\ last.type # "resume-create-grid"
            => last.msg.notified + Cardinality(GridCreatedTo(last.sender)) = 1
       /\ \A k \in GridCreatedTo(last.sender) :
            HasError(sent[k].msg) => last.msg.gridId \notin DOMAIN store

\* the step leaves alone the grid of every open client that has selected a
\* stored grid other than g
OtherGridsUntouched(g) ==
  \A c \in ConnIds :
    (/\ clients[c].status = "open"
     /\ clients[c].selectedGridId \in DOMAIN store \ {g})
      => gridData'[c] = gridData[c]

\* C37 (as claimed): grid isolation: the cell-updates of a cell-edit on grid
\* G and the grid-dimensions-changed of a structural operation on G change
\* the cells and the dimensions of the grid only of clients whose selected
\* grid is G.
C37_GridIsolation ==
  [][/\ (last'.type = "cell-edit" /\ sent' # <<>>) => OtherGridsUntouched(last'.gridId)
     /\ \A k \in DOMAIN sent' :
          sent'[k].msg.type = "grid-dimensions-changed"
            => OtherGridsUntouched(sent'[k].msg.gridId)]_vars

\* C38 (as claimed): when a client selects one grid and then another before
\* the first get_grid_data completes, the last full-grid it receives is for
\* the second: once no get_grid_data of a connection is in flight, the
\* full-grid just sent to it is for the grid its edits are applied to, the
\* connection's selectedGridId.
C38_LastFullGridIsSelected ==
  (/\ last.type = "resume-select-grid"
   /\ clients[last.sender].status = "open"
   /\ \A i \in DOMAIN calls :
        ~(calls[i].op = "get_grid_data" /\ calls[i].sender = last.sender))
    => \A k \in DOMAIN sent :
         sent[k].msg.type = "full-grid"
           => sent[k].msg.gridId = clients[last.sender].selectedGridId

\* C39 (as claimed): in src/server.js the first stamped cell-edit of a cell
\* no user has written (no record, or the empty record ensureGridSize or
\* add-row made, lastUpdatedBy null) is accepted whatever its timestamp: the
\* record then holds the edit's value and writer.
C39_FirstEditAccepted ==
  (/\ last.type = "cell-edit"
   /\ last.msg.hasTs /\ last.msg.timestamp > 0
   /\ (~last.prev.exists \/ last.prev.lastUpdatedBy = NoConn))
    => /\ grid[last.msg.cellId].value = last.msg.value
       /\ grid[last.msg.cellId].lastUpdatedBy = last.sender

\* C40 (as claimed): a user-list lists only connections that have not closed
\* and have sent set-name, and a connection that has set a name stays listed
\* until it closes, whatever set-name it sends afterwards: every user-list of
\* a step that leaves a named connection open lists it.
C40_NamedStaysListed ==
  [][\A k \in DOMAIN sent' :
       sent'[k].msg.type = "user-list"
         => /\ ListedIds(sent'[k].msg) \subseteq InMap(clients') \cap hasSetName'
            /\ \A c \in ConnIds :
                 (/\ clients[c].status = "open" /\ Truthy(clients[c].name)
                  /\ clients'[c].status = "open")
                   => c \in ListedIds(sent'[k].msg)]_vars

====
